---- MODULE Spec2Model ----
(***************************************************************************)
(* The discovery / dedup / license-merge pipeline of trustedtrades:        *)
(*   scripts/discover-tradies-unified.js  (UnifiedTradieDiscovery)         *)
(*   scripts/discover-tradies.js          (LimitedTradieDiscovery)         *)
(*   scripts/verify-licenses.js           (WALicenseVerifier)              *)
(* and the store file data/tradies.json they share.                        *)
(*                                                                         *)
(* JavaScript strings the code inspects character by character (names,     *)
(* addresses, search terms) are sequences of one-character strings; the    *)
(* strings it only compares are TLA+ strings.  undefined and null are the  *)
(* values Undef / Null (sequences) and "undefined" / "null" (strings);     *)
(* an absent number is 0.                                                   *)
(***************************************************************************)
EXTENDS Integers, Sequences, FiniteSets, TLC

(***************************************************************************)
(* Bounds of the model.  MAX_API_CALLS is CONFIG.MAX_API_CALLS scaled down *)
(* (20 and 250 in the sources) so that the budget is reached inside the     *)
(* location x trade loop.                                                   *)
(***************************************************************************)
NumSuburbs == 2
MAX_API_CALLS == 2
MaxPlaces == 1
MaxRuns == 2

(***************************************************************************)
(* JavaScript values                                                       *)
(***************************************************************************)
Undef == <<"undefined">>
Null == <<"null">>
UndefS == "undefined"
NullS == "null"

\* truthiness of a character-sequence value and of a string value
Truthy(s) == s # Undef /\ s # Null /\ s # <<>>
TruthyS(s) == s # UndefS /\ s # NullS /\ s # ""

UpperChars == <<"A","B","C","D","E","F","G","H","I","J","K","L","M",
                "N","O","P","Q","R","S","T","U","V","W","X","Y","Z">>
LowerChars == <<"a","b","c","d","e","f","g","h","i","j","k","l","m",
                "n","o","p","q","r","s","t","u","v","w","x","y","z">>

toLowerChar(c) ==
    IF \E i \in 1..26 : UpperChars[i] = c
    THEN LowerChars[CHOOSE i \in 1..26 : UpperChars[i] = c]
    ELSE c

\* String.prototype.toLowerCase
toLowerCase(s) == [i \in 1..Len(s) |-> toLowerChar(s[i])]

\* sub occurs in s at (1-based) position i
MatchesAt(s, sub, i) ==
    /\ i >= 1
    /\ i + Len(sub) - 1 <= Len(s)
    /\ \A j \in 1..Len(sub) : s[i + j - 1] = sub[j]

\* String.prototype.includes
includes(s, sub) == \E i \in 1..(Len(s) + 1) : MatchesAt(s, sub, i)

\* String.prototype.indexOf, 1-based; 0 when sub does not occur
indexOf(s, sub) ==
    IF includes(s, sub)
    THEN CHOOSE i \in 1..(Len(s) + 1) :
            /\ MatchesAt(s, sub, i)
            /\ \A k \in 1..(i - 1) : ~MatchesAt(s, sub, k)
    ELSE 0

IsSpace(c) == c = " "

\* String.prototype.trim
RECURSIVE trimStart(_)
trimStart(s) ==
    IF s # <<>> /\ IsSpace(Head(s)) THEN trimStart(Tail(s)) ELSE s

RECURSIVE trimEnd(_)
trimEnd(s) ==
    IF s # <<>> /\ IsSpace(s[Len(s)]) THEN trimEnd(SubSeq(s, 1, Len(s) - 1)) ELSE s

trim(s) == trimEnd(trimStart(s))

\* String.prototype.split(sep) for a one-character separator
RECURSIVE split(_, _)
split(s, sep) ==
    IF \E i \in 1..Len(s) : s[i] = sep
    THEN LET i == CHOOSE k \in 1..Len(s) :
                     s[k] = sep /\ \A m \in 1..(k - 1) : s[m] # sep
         IN <<SubSeq(s, 1, i - 1)>> \o split(SubSeq(s, i + 1, Len(s)), sep)
    ELSE <<s>>

\* String.prototype.replace(sub, '') with a string pattern: first occurrence only
removeFirst(s, sub) ==
    LET i == indexOf(s, sub)
    IN IF i = 0 THEN s
       ELSE SubSeq(s, 1, i - 1) \o SubSeq(s, i + Len(sub), Len(s))

\* [...new Set(terms)]: duplicates removed, first occurrences kept in order
RECURSIVE uniq(_)
uniq(seq) ==
    IF seq = <<>> THEN <<>>
    ELSE LET init == uniq(SubSeq(seq, 1, Len(seq) - 1))
             last == seq[Len(seq)]
         IN IF \E i \in 1..Len(init) : init[i] = last THEN init
            ELSE Append(init, last)

(***************************************************************************)
(* Configuration                                                           *)
(***************************************************************************)
\* CONFIG.TEST_SUBURBS, the first NumSuburbs of them (both scripts start with
\* the same three)
TEST_SUBURBS == SubSeq(<<"Perth WA", "Fremantle WA", "Joondalup WA", "Canning Vale WA">>,
                       1, NumSuburbs)

\* CONFIG.TEST_TRADES of discover-tradies-unified.js
TEST_TRADES == <<[type |-> "electrician", query |-> "electrician"],
                 [type |-> "plumber", query |-> "plumber"]>>

\* CONFIG.TEST_TRADES of discover-tradies.js
TEST_TRADES_LIMITED == <<[type |-> "electrician", query |-> "electrician"],
                         [type |-> "plumber", query |-> "plumber"],
                         [type |-> "gas_fitter", query |-> "gas fitter"]>>

Trades(program) == IF program = "limited" THEN TEST_TRADES_LIMITED ELSE TEST_TRADES

(***************************************************************************)
(* String literals of the sources                                          *)
(***************************************************************************)
S_WA == <<"W","A">>
S_SpaceWA == <<" ","W","A">>
S_WesternAustralia ==
    <<"W","e","s","t","e","r","n"," ","A","u","s","t","r","a","l","i","a">>
S_PerthMetro == <<"P","e","r","t","h"," ","M","e","t","r","o">>
S_UnknownBusiness ==
    <<"U","n","k","n","o","w","n"," ","B","u","s","i","n","e","s","s">>
S_ContactViaWebsite == "Contact via website"

\* excludeKeywords of UnifiedTradieDiscovery.isValidTradie
excludeKeywords ==
    << <<"b","u","n","n","i","n","g","s">>,
       <<"m","a","s","t","e","r","s">>,
       <<"h","o","m","e"," ","d","e","p","o","t">>,
       <<"w","a","r","e","h","o","u","s","e">>,
       <<"w","h","o","l","e","s","a","l","e">> >>

\* excludeKeywords of LimitedTradieDiscovery.isValidTradie
excludeKeywordsLimited ==
    << <<"b","u","n","n","i","n","g","s">>,
       <<"m","a","s","t","e","r","s">> >>

\* excludeKeywords of TradieDiscoveryNew.isValidTradie
excludeKeywordsNew ==
    << <<"b","u","n","n","i","n","g","s">>,
       <<"h","o","m","e"," ","d","e","p","o","t">>,
       <<"h","a","r","d","w","a","r","e"," ","s","t","o","r","e">>,
       <<"s","u","p","p","l","y">>,
       <<"t","r","a","i","n","i","n","g">>,
       <<"c","o","u","r","s","e">>,
       <<"s","c","h","o","o","l">>,
       <<"u","n","i","v","e","r","s","i","t","y">>,
       <<"t","a","f","e">>,
       <<"w","a","r","e","h","o","u","s","e">>,
       <<"w","h","o","l","e","s","a","l","e">>,
       <<"r","e","t","a","i","l">>,
       <<"s","h","o","p">> >>

\* relevantTypes of TradieDiscoveryNew.isValidTradie
relevantTypes ==
    { <<"e","l","e","c","t","r","i","c","i","a","n">>,
      <<"p","l","u","m","b","e","r">>,
      <<"c","o","n","t","r","a","c","t","o","r">>,
      <<"h","o","m","e","_","i","m","p","r","o","v","e","m","e","n","t","_","s","t","o","r","e">>,
      <<"p","o","i","n","t","_","o","f","_","i","n","t","e","r","e","s","t">>,
      <<"e","s","t","a","b","l","i","s","h","m","e","n","t">> }

S_contractor == <<"c","o","n","t","r","a","c","t","o","r">>
S_service == <<"s","e","r","v","i","c","e">>

\* the alternatives of the suffix pattern of generateSearchTerms
businessSuffixes ==
    << <<"p","t","y">>, <<"l","t","d">>,
       <<"e","l","e","c","t","r","i","c","a","l">>,
       <<"p","l","u","m","b","i","n","g">>,
       <<"s","e","r","v","i","c","e","s">>,
       <<"s","o","l","u","t","i","o","n","s">>,
       <<"g","r","o","u","p">>,
       <<"c","o","m","p","a","n","y">>,
       <<"c","o">>, <<"i","n","c">> >>

(***************************************************************************)
(* The gateway's candidates (inputs of the model)                          *)
(***************************************************************************)
N_JohnSmithLtd == <<"J","o","h","n"," ","S","m","i","t","h"," ","L","t","d">>
N_JOHNSMITHLTD == <<"J","O","H","N"," ","S","M","I","T","H"," ","L","T","D">>
N_KateGas == <<"K","a","t","e"," ","G","a","s">>
N_Bunnings == <<"B","u","n","n","i","n","g","s">>
N_MiaCo == <<"M","i","a"," ","C","o">>
N_Lee == <<"L","e","e">>
N_KateGasLtd == <<"K","a","t","e"," ","G","a","s"," ","L","t","d">>
A_Perth == <<"1"," ","A"," ","S","t",","," ","P","e","r","t","h"," ","W","A">>
A_Sydney == <<"2"," ","B"," ","S","t",","," ","S","y","d","n","e","y">>

\* a place of the gateway's response (places.* of the field mask); rating,
\* userRatingCount and websiteUri are copied through by processPlace and read
\* by no handler of the pipeline, websiteUri stands for the three
Place(id, name, address, phone, types) ==
    [id |-> id, displayName |-> name, formattedAddress |-> address,
     nationalPhoneNumber |-> phone, websiteUri |-> UndefS, types |-> types]

P_John == Place("g1", N_JohnSmithLtd, A_Perth, "08 1", <<"electrician">>)
\* same place id as P_John, other name and phone
P_Kate == Place("g1", N_KateGas, Undef, "08 2", <<"plumber">>)
\* P_John's name in another casing, other id and phone
P_JOHN == Place("g3", N_JOHNSMITHLTD, A_Perth, "08 3", <<>>)
\* excluded by keyword
P_Bunnings == Place("g4", N_Bunnings, A_Perth, UndefS, <<"store">>)
\* outside WA, no name
P_Sydney == Place("g5", Undef, A_Sydney, "02 5", <<>>)
\* two places that are no duplicates of each other
P_Mia == Place("g6", N_MiaCo, Undef, "08 6", <<"electrician">>)
P_Lee == Place("g8", N_Lee, A_Perth, "08 8", <<>>)
P_KateLtd == Place("g7", N_KateGasLtd, A_Perth, "08 7", <<"plumber">>)

(***************************************************************************)
(* Business records.  One shape for the records of both discovery scripts: *)
(* a field a script does not write is undefined.  Of the fields            *)
(* processPlace writes, rating, reviewCount, specialties, description,     *)
(* ownerRecommended and lastUpdated are read by no handler of the pipeline *)
(* and are left out.                                                        *)
(***************************************************************************)
BlankTradie ==
    [id |-> 0, name |-> Undef, business_name |-> Undef,
     category |-> UndefS, trade_type |-> UndefS,
     licensed |-> UndefS, licenseNumber |-> UndefS,
     phone |-> UndefS, website |-> UndefS, areas |-> <<>>,
     google_place_id |-> UndefS, address |-> Undef, google_types |-> <<>>,
     discovered_location |-> UndefS, discovered_date |-> 0,
     license_verified |-> UndefS, license_number |-> UndefS,
     license_type |-> UndefS, license_holder_name |-> Undef,
     license_status |-> UndefS, license_verified_date |-> 0]

\* UnifiedTradieDiscovery.generateId
generateIdIgnoringStore(existingTradies, results) == Len(results) + 1

generateId(existingTradies, results) == Len(existingTradies) + Len(results) + 1

\* UnifiedTradieDiscovery.extractAreas
extractAreas(address) ==
    IF ~Truthy(address) THEN <<S_PerthMetro>>
    ELSE LET parts == split(address, ",")
         IN IF Len(parts) >= 2
            THEN <<removeFirst(trim(parts[2]), S_SpaceWA)>>
            ELSE <<S_PerthMetro>>

\* the checks shared by the isValidTradie of both scripts: theName is
\* place.name resp. place.business_name
ValidName(theName, keywords) ==
    \A k \in 1..Len(keywords) : ~includes(toLowerCase(theName), keywords[k])

ValidAddress(theAddress) ==
    LET address == IF Truthy(theAddress) THEN theAddress ELSE <<>>
    IN ~(address # <<>> /\ ~includes(address, S_WA)
                        /\ ~includes(address, S_WesternAustralia))

\* a filter that looks at the name only
isValidTradieByName(place) == ValidName(place.name, excludeKeywords)

\* UnifiedTradieDiscovery.isValidTradie
isValidTradie(place) ==
    ValidName(place.name, excludeKeywords) /\ ValidAddress(place.address)

\* LimitedTradieDiscovery.isValidTradie
isValidTradieLimited(place) ==
    ValidName(place.business_name, excludeKeywordsLimited) /\ ValidAddress(place.address)

\* TradieDiscoveryNew.isValidTradie, the address check: address is
\* place.address || '', and '' includes neither marker
ValidAddressNew(theAddress) ==
    LET address == IF Truthy(theAddress) THEN theAddress ELSE <<>>
    IN ~(~includes(address, S_WA) /\ ~includes(address, S_WesternAustralia))

\* TradieDiscoveryNew.isValidTradie, types.some(...): types is
\* place.google_types || [], a sequence of tags
hasRelevantType(types) ==
    \E n \in 1..Len(types) :
        \/ types[n] \in relevantTypes
        \/ includes(types[n], S_contractor)
        \/ includes(types[n], S_service)

ValidTypesNew(types) == ~(~hasRelevantType(types) /\ Len(types) > 0)

\* TradieDiscoveryNew.isValidTradie
isValidTradieNew(place) ==
    /\ ValidName(place.business_name, excludeKeywordsNew)
    /\ ValidAddressNew(place.address)
    /\ ValidTypesNew(place.google_types)

\* a callback that knows a business by its phone only
sameBusinessByPhone(existing, newTradie) ==
    TruthyS(existing.phone) /\ TruthyS(newTradie.phone)
        /\ existing.phone = newTradie.phone

\* the callback of allTradies.some in isDuplicate, for an existing record
\* that has a name
sameBusiness(existing, newTradie) ==
    \/ toLowerCase(existing.name) = toLowerCase(newTradie.name)
    \/ (TruthyS(existing.phone) /\ TruthyS(newTradie.phone)
            /\ existing.phone = newTradie.phone)
    \/ (TruthyS(existing.google_place_id)
            /\ existing.google_place_id = newTradie.google_place_id)

\* Array.prototype.some over allTradies: "true" / "false", or "throw" when the
\* scan reaches a record without a name (existing.name.toLowerCase() of
\* undefined) before it reaches a match
someSameBusiness(allTradies, newTradie) ==
    LET stops == {i \in 1..Len(allTradies) :
                     \/ allTradies[i].name = Undef
                     \/ sameBusiness(allTradies[i], newTradie)}
    IN IF stops = {} THEN "false"
       ELSE LET first == CHOOSE i \in stops : \A j \in stops : i <= j
            IN IF allTradies[first].name = Undef THEN "throw" ELSE "true"

\* UnifiedTradieDiscovery.isDuplicate
isDuplicateInRunOnly(existingTradies, results, newTradie) ==
    someSameBusiness(results, newTradie)

\* an isDuplicate that compares with the loaded store only
isDuplicateOfStoreOnly(existingTradies, results, newTradie) ==
    someSameBusiness(existingTradies, newTradie)

isDuplicate(existingTradies, results, newTradie) ==
    someSameBusiness(existingTradies \o results, newTradie)

\* UnifiedTradieDiscovery.processPlace: <<placeData>>, or << >> for null
processPlace(place, trade, location, existingTradies, results, now) ==
    LET placeData ==
            [BlankTradie EXCEPT
                !.id = generateId(existingTradies, results),
                !.name = IF Truthy(place.displayName) THEN place.displayName
                         ELSE S_UnknownBusiness,
                !.category = trade.type,
                !.licensed = NullS,
                !.licenseNumber = NullS,
                !.phone = IF TruthyS(place.nationalPhoneNumber)
                          THEN place.nationalPhoneNumber ELSE S_ContactViaWebsite,
                !.website = IF TruthyS(place.websiteUri) THEN place.websiteUri ELSE NullS,
                !.areas = extractAreas(place.formattedAddress),
                !.google_place_id = place.id,
                !.address = place.formattedAddress,
                !.google_types = place.types,
                !.discovered_location = location,
                !.discovered_date = now]
    IN IF isValidTradie(placeData) THEN <<placeData>> ELSE << >>

\* LimitedTradieDiscovery.processPlace: <<record>>, or << >> for null
processPlaceLimited(place, trade, location, now) ==
    LET placeData ==
            [BlankTradie EXCEPT
                !.google_place_id = place.id,
                !.business_name = IF Truthy(place.displayName) THEN place.displayName
                                  ELSE S_UnknownBusiness,
                !.address = place.formattedAddress,
                !.phone = place.nationalPhoneNumber,
                !.website = place.websiteUri,
                !.google_types = place.types]
    IN IF isValidTradieLimited(placeData)
       THEN <<[placeData EXCEPT !.trade_type = trade.type,
                                !.discovered_location = location,
                                !.discovered_date = now]>>
       ELSE << >>

\* the for loop over data.places of UnifiedTradieDiscovery.searchInLocation:
\* the results after it.  A throw of isDuplicate leaves the loop for the catch
\* of searchInLocation, the places after it are not processed.
RECURSIVE acceptPlaces(_, _, _, _, _, _)
acceptPlaces(places, trade, location, existingTradies, results, now) ==
    IF places = << >> THEN results
    ELSE LET processedPlace ==
                 processPlace(Head(places), trade, location, existingTradies, results, now)
             dup == isDuplicate(existingTradies, results, processedPlace[1])
         IN IF processedPlace = << >>
            THEN acceptPlaces(Tail(places), trade, location, existingTradies, results, now)
            ELSE IF dup = "throw" THEN results
            ELSE IF dup = "true"
            THEN acceptPlaces(Tail(places), trade, location, existingTradies, results, now)
            ELSE acceptPlaces(Tail(places), trade, location, existingTradies,
                              Append(results, processedPlace[1]), now)

\* the for loop over data.places of LimitedTradieDiscovery.searchInLocation
RECURSIVE acceptPlacesLimited(_, _, _, _, _)
acceptPlacesLimited(places, trade, location, results, now) ==
    IF places = << >> THEN results
    ELSE acceptPlacesLimited(Tail(places), trade, location,
             results \o processPlaceLimited(Head(places), trade, location, now), now)

\* WALicenseVerifier.generateSearchTerms.  The pattern
\* /\s*(pty|ltd|...|co|inc).*$/i matches from the whitespace before the first
\* occurrence of an alternative to the end of the name (names hold no line
\* breaks), and trim() removes what whitespace is left.
cleanNameOf(businessName) ==
    LET lower == toLowerCase(businessName)
        hits == {i \in 1..Len(businessName) :
                    \E k \in 1..Len(businessSuffixes) :
                        MatchesAt(lower, businessSuffixes[k], i)}
    IN IF hits = {} THEN trim(businessName)
       ELSE trim(SubSeq(businessName, 1, (CHOOSE i \in hits : \A j \in hits : i <= j) - 1))

generateSearchTerms(businessName) ==
    LET cleanName == cleanNameOf(businessName)
        t1 == <<businessName>>
        t2 == IF cleanName # businessName /\ Len(cleanName) > 2
              THEN Append(t1, cleanName) ELSE t1
        firstWord == split(businessName, " ")[1]
        t3 == IF Len(firstWord) > 3 /\ firstWord # cleanName
              THEN Append(t2, firstWord) ELSE t2
        words == split(cleanName, " ")
        lastName == words[Len(words)]
        t4 == IF Len(words) > 1 /\ Len(lastName) > 3
              THEN Append(t3, lastName) ELSE t3
    IN uniq(t4)

(***************************************************************************)
(* The store document data/tradies.json.  keys is the set of the           *)
(* document's top-level keys; the value of a key that is not in keys is    *)
(* the blank one.  JSON.stringify drops the undefined fields of a record   *)
(* and JSON.parse gives undefined for a field that is not there, so a      *)
(* record reads back as it was written.  verificationRate is a formatting  *)
(* of the two counts next to it.                                            *)
(***************************************************************************)
NoStats == [totalChecked |-> -1, licensed |-> -1, unlicensed |-> -1]

NoFile ==
    [exists |-> FALSE, keys |-> {}, lastUpdated |-> 0, totalTradies |-> -1,
     newTradiesAdded |-> -1, apiCallsUsed |-> -1, breakdown |-> << >>,
     lastLicenseCheck |-> 0, licenseVerificationStats |-> NoStats,
     tradies |-> << >>, malformed |-> FALSE]

\* data/tradies.json exists and JSON.parse throws on its text
Unparseable == [NoFile EXCEPT !.exists = TRUE, !.malformed = TRUE]

\* UnifiedTradieDiscovery.getTradeBreakdown: category -> number of records
getTradeBreakdown(tradies) ==
    [c \in {tradies[n].category : n \in 1..Len(tradies)} |->
        Cardinality({n \in 1..Len(tradies) : tradies[n].category = c})]

\* a document whose metadata is derived from the records of this run only
unifiedDataOfResults(existingTradies, results, apiCallCount, now) ==
    [NoFile EXCEPT
        !.exists = TRUE,
        !.keys = {"lastUpdated", "totalTradies", "newTradiesAdded",
                  "apiCallsUsed", "breakdown", "tradies"},
        !.lastUpdated = now,
        !.totalTradies = Len(results),
        !.newTradiesAdded = Len(results),
        !.apiCallsUsed = apiCallCount,
        !.breakdown = getTradeBreakdown(results),
        !.tradies = existingTradies \o results]

\* the document UnifiedTradieDiscovery.saveUnifiedData writes
unifiedData(existingTradies, results, apiCallCount, now) ==
    LET allTradies == existingTradies \o results
    IN [NoFile EXCEPT
          !.exists = TRUE,
          !.keys = {"lastUpdated", "totalTradies", "newTradiesAdded",
                    "apiCallsUsed", "breakdown", "tradies"},
          !.lastUpdated = now,
          !.totalTradies = Len(allTradies),
          !.newTradiesAdded = Len(results),
          !.apiCallsUsed = apiCallCount,
          !.breakdown = getTradeBreakdown(allTradies),
          !.tradies = allTradies]

\* the document LimitedTradieDiscovery.saveResults writes
tradiesData(results, apiCallCount, now) ==
    [NoFile EXCEPT
        !.exists = TRUE,
        !.keys = {"lastUpdated", "totalTradies", "apiCallsUsed", "tradies"},
        !.lastUpdated = now,
        !.totalTradies = Len(results),
        !.apiCallsUsed = apiCallCount,
        !.tradies = results]

\* statistics that take every record checked for unlicensed
updatedDataAllUnlicensed(originalData, tradies, verifiedCount, licensedCount, now) ==
    [originalData EXCEPT
        !.keys = @ \cup {"lastUpdated", "lastLicenseCheck",
                         "licenseVerificationStats", "tradies"},
        !.lastUpdated = now,
        !.lastLicenseCheck = now,
        !.licenseVerificationStats =
            [totalChecked |-> verifiedCount, licensed |-> licensedCount,
             unlicensed |-> verifiedCount],
        !.tradies = tradies]

\* the document WALicenseVerifier.saveUpdatedTradies writes
updatedData(originalData, tradies, verifiedCount, licensedCount, now) ==
    [originalData EXCEPT
        !.keys = @ \cup {"lastUpdated", "lastLicenseCheck",
                         "licenseVerificationStats", "tradies"},
        !.lastUpdated = now,
        !.lastLicenseCheck = now,
        !.licenseVerificationStats =
            [totalChecked |-> verifiedCount, licensed |-> licensedCount,
             unlicensed |-> verifiedCount - licensedCount],
        !.tradies = tradies]

(***************************************************************************)
(* The collaborators' answers                                              *)
(***************************************************************************)
\* sequences of at most MaxPlaces places of pool
PlaceLists(pool) == UNION {[1..n -> pool] : n \in 0..MaxPlaces}

\* the parsed bodies makePostRequest resolves with: {places: [...]} or an
\* error payload {error: {...}} without places
GatewayData(pool) ==
    {[hasPlaces |-> TRUE, places |-> l, hasError |-> FALSE] : l \in PlaceLists(pool)}
        \cup {[hasPlaces |-> FALSE, places |-> << >>, hasError |-> TRUE]}

\* the license numbers the registry hands out
LicenseNumbers == {"EC10001", "EC10002"}

\* what the licensing registry does with one query: it throws ("error"),
\* finds nothing ("not_found"), or finds the license with the given number
RegistryAnswers == {"error", "not_found"} \cup LicenseNumbers

\* the answers to a query that reports a license, and those to one that does not
AnswersOf(reportsFound) ==
    IF reportsFound THEN LicenseNumbers ELSE {"error", "not_found"}

\* the licenseInfo searchWALicense returns for searchTerm under the registry
\* answer: null after a caught error, {found: false}, or the license found
NoLicenseInfo ==
    [isNull |-> FALSE, found |-> FALSE, license_number |-> UndefS,
     license_type |-> UndefS, holder_name |-> Undef, status |-> UndefS]

searchWALicense(searchTerm, tradeType, answer) ==
    IF answer = "error" THEN [NoLicenseInfo EXCEPT !.isNull = TRUE]
    ELSE IF answer = "not_found" THEN NoLicenseInfo
    ELSE [NoLicenseInfo EXCEPT
            !.found = TRUE,
            !.license_number = answer,
            !.license_type = IF tradeType = "electrician"
                             THEN "Electrical Contractor" ELSE "Plumber",
            !.holder_name = searchTerm \o <<" ","P","t","y"," ","L","t","d">>,
            !.status = "Current"]

\* a match branch that also takes the holder's name for the record's name
licenseFoundRenaming(tradie, licenseInfo, now) ==
    [tradie EXCEPT
        !.name = licenseInfo.holder_name,
        !.license_verified = "true",
        !.licensed = "true",
        !.license_number = licenseInfo.license_number,
        !.license_type = licenseInfo.license_type,
        !.license_holder_name = licenseInfo.holder_name,
        !.license_status = licenseInfo.status,
        !.license_verified_date = now]

\* a match branch that marks the record that was licensed before
licenseFoundMarkingRepeat(tradie, licenseInfo, now) ==
    [tradie EXCEPT
        !.license_verified = "true",
        !.licensed = "true",
        !.license_number = licenseInfo.license_number,
        !.license_type = licenseInfo.license_type,
        !.license_holder_name = licenseInfo.holder_name,
        !.license_status = IF tradie.licensed = "true" THEN "Renewed"
                           ELSE licenseInfo.status,
        !.license_verified_date = now]

\* WALicenseVerifier.verifyLicense, the writes of the match branch
licenseFound(tradie, licenseInfo, now) ==
    [tradie EXCEPT
        !.license_verified = "true",
        !.licensed = "true",
        !.license_number = licenseInfo.license_number,
        !.license_type = licenseInfo.license_type,
        !.license_holder_name = licenseInfo.holder_name,
        !.license_status = licenseInfo.status,
        !.license_verified_date = now]

\* writes after the loop that leave the license number as it was
licenseNotFoundKeepingNumber(tradie, now) ==
    [tradie EXCEPT
        !.license_verified = "true",
        !.licensed = "false",
        !.license_status = "not_found",
        !.license_verified_date = now]

\* WALicenseVerifier.verifyLicense, the writes after the loop over the variants
licenseNotFound(tradie, now) ==
    [tradie EXCEPT
        !.license_verified = "true",
        !.licensed = "false",
        !.license_number = NullS,
        !.license_status = "not_found",
        !.license_verified_date = now]

----
(***************************************************************************)
(* State                                                                    *)
(***************************************************************************)
VARIABLES
    file,             \* data/tradies.json
    clock,            \* the number of runs started; new Date() of a run
    program,          \* the script that runs: "idle" when none does
    pc,               \* where the running script stands
    apiKey,           \* process.env.GOOGLE_PLACES_API_KEY is set
    existingTradies,  \* UnifiedTradieDiscovery.existingTradies
    results,          \* this.results of the discovery scripts
    apiCallCount,     \* this.apiCallCount of the discovery scripts
    suburb,           \* index into TEST_SUBURBS of the outer for loop
    trade,            \* index into TEST_TRADES of the inner for loop
    data,             \* verifyAllLicenses: the parsed document
    tradies,          \* verifyAllLicenses: data.tradies, updated in place
    i,                \* verifyAllLicenses: the loop index (1-based)
    searchTerms,      \* verifyLicense: the variants of the current record
    term,             \* verifyLicense: index of the variant being queried
    verifiedCount,    \* WALicenseVerifier.verifiedCount
    licensedCount,    \* WALicenseVerifier.licensedCount
    registry,         \* per variant of the current record: the registry reports a license
    requests,         \* history: gateway requests issued by the current run
    queried,          \* history: the terms queried for the current record
    lastRun,          \* history: the last run that ended, and how
    gateway,          \* history: what the gateway stub answered, per query
    call,             \* a function under test and its argument
    ret,              \* what the function returned, once it has
    log,              \* history: what the current run started and saw end, in order
    page,             \* index.html: the tradiesData array of the page
    parked            \* a second process: its script, position and fields

vars == <<file, clock, program, pc, apiKey, existingTradies, results, apiCallCount,
          suburb, trade, data, tradies, i, searchTerms, term, verifiedCount,
          licensedCount, registry, requests, queried, lastRun, gateway, call, ret,
          log, page, parked>>

discoveryVars == <<apiKey, existingTradies, results, apiCallCount, suburb, trade,
                   requests>>
verifierVars == <<data, tradies, i, searchTerms, term, verifiedCount, licensedCount,
                  registry, queried>>

NoRun == [program |-> "none", saved |-> FALSE, exit |-> 0]

\* the queries of a run: <<suburb index, trade index>>
Queries == (1..NumSuburbs) \X (1..Len(TEST_TRADES_LIMITED))

Unasked == [asked |-> FALSE, rejected |-> FALSE,
            body |-> [hasPlaces |-> FALSE, places |-> << >>, hasError |-> FALSE]]

\* no function is under test
NoCall == [fn |-> "none", place |-> BlankTradie]
NoReturn == [done |-> FALSE, value |-> FALSE]

\* index.html as shipped: no script has written the tradiesData array
NoPage == [written |-> FALSE, tradiesData |-> << >>]

\* no script runs: the fields of the script objects hold nothing
NoDiscovery ==
    /\ apiKey = FALSE
    /\ existingTradies = << >>
    /\ results = << >>
    /\ apiCallCount = 0
    /\ suburb = 1
    /\ trade = 1
    /\ requests = 0

NoVerifier ==
    /\ data = NoFile
    /\ tradies = << >>
    /\ i = 1
    /\ searchTerms = << >>
    /\ term = 1
    /\ verifiedCount = 0
    /\ licensedCount = 0
    /\ registry = << >>
    /\ queried = << >>

\* no second process: the fields of NoDiscovery and NoVerifier
NoProcess ==
    [program |-> "idle", pc |-> "idle", apiKey |-> FALSE, existingTradies |-> << >>,
     results |-> << >>, apiCallCount |-> 0, suburb |-> 1, trade |-> 1, requests |-> 0,
     data |-> NoFile, tradies |-> << >>, i |-> 1, searchTerms |-> << >>, term |-> 1,
     verifiedCount |-> 0, licensedCount |-> 0, registry |-> << >>, queried |-> << >>]

\* the store file is absent and no script has run
Init ==
    /\ file = NoFile
    /\ clock = 0
    /\ program = "idle"
    /\ pc = "idle"
    /\ NoDiscovery
    /\ NoVerifier
    /\ lastRun = NoRun
    /\ gateway = [q \in Queries |-> Unasked]
    /\ call = NoCall
    /\ ret = NoReturn
    /\ log = << >>
    /\ page = NoPage
    /\ parked = NoProcess

(***************************************************************************)
(* The discovery scripts.  searchTradies and searchInLocation of           *)
(* UnifiedTradieDiscovery and of LimitedTradieDiscovery are the same loop; *)
(* script is "unified" or "limited".                                        *)
(***************************************************************************)
\* the script ends: main returns (exit status 0) or its catch exits with 1;
\* the process and its objects are gone
Ended(script, saved, exit) ==
    /\ program' = "idle"
    /\ pc' = "idle"
    /\ lastRun' = [program |-> script, saved |-> saved, exit |-> exit]
    /\ apiKey' = FALSE
    /\ existingTradies' = << >>
    /\ results' = << >>
    /\ apiCallCount' = 0
    /\ suburb' = 1
    /\ trade' = 1
    /\ requests' = 0
    /\ data' = NoFile
    /\ tradies' = << >>
    /\ i' = 1
    /\ searchTerms' = << >>
    /\ term' = 1
    /\ verifiedCount' = 0
    /\ licensedCount' = 0
    /\ registry' = << >>
    /\ queried' = << >>

\* the budget check at the top of the inner loop
budgetCheckOffByOne(count) == count > MAX_API_CALLS

budgetExhausted(count) == count >= MAX_API_CALLS

\* UnifiedTradieDiscovery.loadExistingData: the file's tradies, and nothing
\* when the file is absent or JSON.parse throws (the catch: "starting fresh")
loadExistingData(f) == IF f.exists /\ ~f.malformed THEN f.tradies ELSE << >>

\* a searchTradies without the credential check
StartDiscoveryUnchecked(script, hasKey) ==
    /\ program = "idle"
    /\ clock < MaxRuns
    /\ clock' = clock + 1
    /\ program' = script
    /\ pc' = "loop"
    /\ apiKey' = hasKey
    /\ results' = << >>
    /\ apiCallCount' = 0
    /\ requests' = 0
    /\ suburb' = 1
    /\ trade' = 1
    /\ existingTradies' = IF script = "unified" THEN loadExistingData(file)
                          ELSE << >>
    /\ UNCHANGED <<lastRun, verifierVars>>
    /\ UNCHANGED file

\* main, the constructor and searchTradies up to the loop.  hasKey: the
\* environment holds GOOGLE_PLACES_API_KEY
StartDiscovery(script, hasKey) ==
    /\ program = "idle"
    /\ clock < MaxRuns
    /\ clock' = clock + 1
    /\ IF ~hasKey
       THEN Ended(script, FALSE, 0)
       ELSE /\ program' = script
            /\ pc' = "loop"
            /\ apiKey' = TRUE
            /\ results' = << >>
            /\ apiCallCount' = 0
            /\ requests' = 0
            /\ suburb' = 1
            /\ trade' = 1
            /\ existingTradies' = IF script = "unified" THEN loadExistingData(file)
                                  ELSE << >>
            /\ UNCHANGED <<lastRun, verifierVars>>
    /\ UNCHANGED file

\* the top of the inner loop body: the budget check, then searchInLocation up
\* to the await of makePostRequest
SearchInLocation(script) ==
    /\ program = script
    /\ pc = "loop"
    /\ IF budgetExhausted(apiCallCount)
       THEN /\ pc' = "save"
            /\ requests' = requests
       ELSE /\ pc' = "gateway"
            /\ requests' = requests + 1
    /\ UNCHANGED <<file, clock, program, apiKey, existingTradies, results, apiCallCount,
                   suburb, trade, verifierVars, lastRun>>

\* a counter that counts the responses with places only
apiCallCountIfPlaces(count, body) == IF body.hasPlaces THEN count + 1 ELSE count

\* this.apiCallCount++ after the await of makePostRequest, whatever the body
apiCallCountAfter(count, body) == count + 1

\* makePostRequest resolves with the parsed body: the rest of the try block
GatewayResolves(script, body) ==
    /\ program = script
    /\ pc = "gateway"
    /\ apiCallCount' = apiCallCountAfter(apiCallCount, body)
    /\ results' =
          IF ~body.hasPlaces THEN results
          ELSE IF script = "unified"
          THEN acceptPlaces(body.places, TEST_TRADES[trade], TEST_SUBURBS[suburb],
                            existingTradies, results, clock)
          ELSE acceptPlacesLimited(body.places, TEST_TRADES_LIMITED[trade],
                                   TEST_SUBURBS[suburb], results, clock)
    /\ pc' = "delay"
    /\ UNCHANGED <<file, clock, program, apiKey, existingTradies, suburb, trade,
                   requests, verifierVars, lastRun>>

\* a searchInLocation without the catch block: the rejection ends the run in
\* the catch of main
GatewayRejectsFatal(script) ==
    /\ program = script
    /\ pc = "gateway"
    /\ Ended(script, FALSE, 1)
    /\ UNCHANGED <<file, clock>>

\* makePostRequest rejects (network error, unparseable body): the catch block
GatewayRejects(script) ==
    /\ program = script
    /\ pc = "gateway"
    /\ pc' = "delay"
    /\ UNCHANGED <<file, clock, program, apiKey, existingTradies, results, apiCallCount,
                   suburb, trade, requests, verifierVars, lastRun>>

\* for loops that end with the trades of the first suburb
DelayInnerLoopOnly(script) ==
    /\ program = script
    /\ pc = "delay"
    /\ IF trade < Len(Trades(script))
       THEN /\ trade' = trade + 1
            /\ pc' = "loop"
       ELSE /\ trade' = trade
            /\ pc' = "save"
    /\ UNCHANGED <<file, clock, program, apiKey, existingTradies, results, apiCallCount,
                   suburb, requests, verifierVars, lastRun>>

\* the delay after searchInLocation ends; the for loops step
Delay(script) ==
    /\ program = script
    /\ pc = "delay"
    /\ IF trade < Len(Trades(script))
       THEN /\ trade' = trade + 1
            /\ suburb' = suburb
            /\ pc' = "loop"
       ELSE IF suburb < Len(TEST_SUBURBS)
       THEN /\ trade' = 1
            /\ suburb' = suburb + 1
            /\ pc' = "loop"
       ELSE /\ trade' = trade
            /\ suburb' = suburb
            /\ pc' = "save"
    /\ UNCHANGED <<file, clock, program, apiKey, existingTradies, results, apiCallCount,
                   requests, verifierVars, lastRun>>

\* a save that reads the store file again and adds the results to it
SaveOntoFile(script) ==
    /\ program = script
    /\ pc = "save"
    /\ file' = IF script = "unified"
               THEN unifiedData(loadExistingData(file), results, apiCallCount, clock)
               ELSE tradiesData(results, apiCallCount, clock)
    /\ Ended(script, TRUE, 0)
    /\ UNCHANGED clock

\* saveUnifiedData resp. saveResults, and the return to main
Save(script) ==
    /\ program = script
    /\ pc = "save"
    /\ file' = IF script = "unified"
               THEN unifiedData(existingTradies, results, apiCallCount, clock)
               ELSE tradiesData(results, apiCallCount, clock)
    /\ Ended(script, TRUE, 0)
    /\ UNCHANGED clock

(***************************************************************************)
(* The license verifier, scripts/verify-licenses.js                         *)
(***************************************************************************)
\* main, the constructor and verifyAllLicenses up to the loop.  JSON.parse of
\* an unparseable file throws out of verifyAllLicenses into the catch of main
VerifyAllLicenses ==
    /\ program = "idle"
    /\ clock < MaxRuns
    /\ clock' = clock + 1
    /\ IF ~file.exists
       THEN Ended("verify", FALSE, 0)
       ELSE IF file.malformed
       THEN Ended("verify", FALSE, 1)
       ELSE /\ program' = "verify"
            /\ pc' = "next"
            /\ data' = file
            /\ tradies' = file.tradies
            /\ verifiedCount' = 0
            /\ licensedCount' = 0
            /\ i' = 1
            /\ UNCHANGED <<searchTerms, term, registry, queried, lastRun, discoveryVars>>
    /\ UNCHANGED file

\* the name and the trade verifyLicense looks a record up under
businessNameOf(tradie) ==
    IF Truthy(tradie.business_name) THEN tradie.business_name ELSE tradie.name

tradeTypeOf(tradie) ==
    IF TruthyS(tradie.trade_type) THEN tradie.trade_type ELSE tradie.category

\* the loop test of verifyAllLicenses and verifyLicense up to its first query.
\* Whether the registry reports a license for a variant of this record is
\* fixed here, for every variant, so that what a later variant would have
\* answered is defined.
NextTradie ==
    /\ program = "verify"
    /\ pc = "next"
    /\ IF i > Len(tradies)
       THEN /\ pc' = "save"
            /\ UNCHANGED <<verifiedCount, searchTerms, term, registry, queried>>
       ELSE /\ pc' = "ask"
            /\ verifiedCount' = verifiedCount + 1
            /\ searchTerms' = generateSearchTerms(businessNameOf(tradies[i]))
            /\ term' = 1
            /\ queried' = << >>
            /\ registry' \in [1..Len(searchTerms') -> BOOLEAN]
    /\ UNCHANGED <<file, clock, program, discoveryVars, data, tradies, i, licensedCount,
                   lastRun>>

\* verifyLicense calls searchWALicense for the next variant
AskRegistry ==
    /\ program = "verify"
    /\ pc = "ask"
    /\ queried' = Append(queried, searchTerms[term])
    /\ pc' = "answer"
    /\ UNCHANGED <<file, clock, program, discoveryVars, data, tradies, i, searchTerms,
                   term, verifiedCount, licensedCount, registry, lastRun>>

\* a loop over the variants that tests licenseInfo.licensed, a field the
\* registry's answer does not have
matchTestsLicensed(licenseInfo) == FALSE

\* a loop over the variants that a null licenseInfo ends as a match does
matchEndsOnNull(licenseInfo) == licenseInfo.isNull \/ licenseInfo.found

\* searchWALicense returned licenseInfo for the variant at term: the variant
\* ends the loop over the variants (the return of the match branch)
matchEnds(licenseInfo) == ~licenseInfo.isNull /\ licenseInfo.found

\* searchWALicense returns: the body of the loop over the variants, and the
\* writes after the loop when this was the last variant
RegistryAnswer(answer) ==
    /\ program = "verify"
    /\ pc = "answer"
    /\ answer \in AnswersOf(registry[term])
    /\ LET tradie == tradies[i]
           licenseInfo == searchWALicense(searchTerms[term], tradeTypeOf(tradie), answer)
       IN IF matchEnds(licenseInfo)
          THEN /\ tradies' = [tradies EXCEPT ![i] = licenseFound(tradie, licenseInfo, clock)]
               /\ licensedCount' = licensedCount + 1
               /\ term' = term
               /\ pc' = "pause"
          ELSE IF term < Len(searchTerms)
          THEN /\ term' = term + 1
               /\ pc' = "ask"
               /\ UNCHANGED <<tradies, licensedCount>>
          ELSE /\ tradies' = [tradies EXCEPT ![i] = licenseNotFound(tradie, clock)]
               /\ term' = term
               /\ pc' = "pause"
               /\ UNCHANGED licensedCount
    /\ UNCHANGED <<file, clock, program, discoveryVars, data, i, searchTerms,
                   verifiedCount, registry, queried, lastRun>>

\* a loop over the records that steps by two
VerifyDelaySkipping ==
    /\ program = "verify"
    /\ pc = "pause"
    /\ i' = i + 2
    /\ pc' = "next"
    /\ searchTerms' = << >>
    /\ term' = 1
    /\ registry' = << >>
    /\ queried' = << >>
    /\ UNCHANGED <<file, clock, program, discoveryVars, data, tradies, verifiedCount,
                   licensedCount, lastRun>>

\* the delay(2000) after verifyLicense; the loop steps
VerifyDelay ==
    /\ program = "verify"
    /\ pc = "pause"
    /\ i' = i + 1
    /\ pc' = "next"
    /\ searchTerms' = << >>
    /\ term' = 1
    /\ registry' = << >>
    /\ queried' = << >>
    /\ UNCHANGED <<file, clock, program, discoveryVars, data, tradies, verifiedCount,
                   licensedCount, lastRun>>

\* saveUpdatedTradies, and the return to main
SaveUpdatedTradies ==
    /\ program = "verify"
    /\ pc = "save"
    /\ file' = updatedData(data, tradies, verifiedCount, licensedCount, clock)
    /\ Ended("verify", TRUE, 0)
    /\ UNCHANGED clock

(***************************************************************************)
(* The publishers, scripts/update-website-unified.js and                   *)
(* scripts/update-website.js.  Both are synchronous: a run is one step.    *)
(* index.html is there and holds a tradiesData array, and data/ holds no   *)
(* discovery file other than tradies.json.                                  *)
(***************************************************************************)
\* UnifiedWebsiteUpdater.loadTradiesData: this.tradiesData
loadTradiesData(f) == IF f.exists /\ ~f.malformed THEN f.tradies ELSE << >>

\* updateHTML of both classes: the array that replaces tradiesData
updateHTML(theData) == [written |-> TRUE, tradiesData |-> theData]

\* main of update-website-unified.js
UpdateWebsiteUnified ==
    /\ program = "idle"
    /\ clock < MaxRuns
    /\ clock' = clock + 1
    /\ page' = updateHTML(loadTradiesData(file))
    /\ lastRun' = [program |-> "publish-unified", saved |-> FALSE, exit |-> 0]
    /\ UNCHANGED <<file, program, pc, discoveryVars, verifierVars, gateway, call, ret,
                   log, parked>>

\* WebsiteUpdater.extractAreas
extractAreasOfUpdater(address) ==
    IF ~Truthy(address) THEN <<S_PerthMetro>>
    ELSE LET parts == split(address, ",")
         IN IF Len(parts) >= 2 THEN <<trim(parts[2])>> ELSE <<S_PerthMetro>>

\* WebsiteUpdater.removeDuplicates: the first record of every key
\* name_phone stays (the key is modelled as the pair: no name and no phone
\* of the model holds "_")
S_Unknown == <<"U","n","k","n","o","w","n">>
keyOf(tradie) ==
    <<toLowerCase(IF Truthy(tradie.name) THEN tradie.name
                  ELSE IF Truthy(tradie.business_name) THEN tradie.business_name
                  ELSE S_Unknown),
      IF TruthyS(tradie.phone) THEN tradie.phone ELSE "No phone">>

RECURSIVE removeDuplicates(_)
removeDuplicates(list) ==
    IF list = << >> THEN << >>
    ELSE LET front == SubSeq(list, 1, Len(list) - 1)
             last == list[Len(list)]
         IN IF \E k \in 1..Len(front) : keyOf(front[k]) = keyOf(last)
            THEN removeDuplicates(front)
            ELSE Append(removeDuplicates(front), last)

\* WebsiteUpdater.processData: the fields of the mapped record that a handler
\* reads (see BlankTradie); a field the map does not write is gone
processData(theData) ==
    removeDuplicates(
        [index \in 1..Len(theData) |->
            LET tradie == theData[index]
            IN [BlankTradie EXCEPT
                   !.id = index,
                   !.name = tradie.business_name,
                   !.category = tradie.trade_type,
                   !.licensed = IF TruthyS(tradie.license_verified)
                                THEN tradie.license_verified ELSE "false",
                   !.licenseNumber = tradie.license_number,
                   !.phone = IF TruthyS(tradie.phone) THEN tradie.phone
                             ELSE S_ContactViaWebsite,
                   !.website = tradie.website,
                   !.areas = extractAreasOfUpdater(tradie.address)]])

\* the document WebsiteUpdater.generateJSON writes (licensedCount is read by
\* no handler)
exportData(theData, now) ==
    [NoFile EXCEPT
        !.exists = TRUE,
        !.keys = {"lastUpdated", "totalTradies", "licensedCount", "tradies"},
        !.lastUpdated = now,
        !.totalTradies = Len(theData),
        !.tradies = theData]

\* main of update-website.js.  JSON.parse of an unparseable tradies.json
\* throws out of loadLatestData; main().catch(console.error) logs it
UpdateWebsite ==
    /\ program = "idle"
    /\ clock < MaxRuns
    /\ clock' = clock + 1
    /\ IF file.exists /\ file.malformed
       THEN /\ UNCHANGED <<file, page, parked>>
            /\ lastRun' = [program |-> "publish", saved |-> FALSE, exit |-> 0]
       ELSE LET theData == processData(IF file.exists THEN file.tradies ELSE << >>)
            IN /\ page' = updateHTML(theData)
               /\ file' = exportData(theData, clock)
               /\ lastRun' = [program |-> "publish", saved |-> TRUE, exit |-> 0]
    /\ UNCHANGED <<program, pc, discoveryVars, verifierVars, gateway, call, ret, log, parked>>

(***************************************************************************)
(* Specifications                                                          *)
(***************************************************************************)
\* the places the gateway answers with, per specification
PipelinePool == {P_Lee, P_Mia}
VerifyPool == {P_Mia, P_KateLtd}
BudgetPool == {P_Bunnings, P_Sydney}
DiscoveryPool == {P_John, P_Kate, P_Bunnings}
IdemPool == {P_John, P_Kate}

\* the discovery scripts with a gateway of free answers
DiscoveryStart(script) ==
    /\ \E hasKey \in BOOLEAN : StartDiscovery(script, hasKey)
    /\ UNCHANGED <<gateway, call, ret, log, page, parked>>
DiscoverySearch(script) == SearchInLocation(script) /\ UNCHANGED <<gateway, call, ret, log, page, parked>>
DiscoveryResolve(script, pool) ==
    /\ \E body \in GatewayData(pool) : GatewayResolves(script, body)
    /\ UNCHANGED <<gateway, call, ret, log, page, parked>>
DiscoveryReject(script) == GatewayRejects(script) /\ UNCHANGED <<gateway, call, ret, log, page, parked>>
DiscoveryDelay(script) == Delay(script) /\ UNCHANGED <<gateway, call, ret, log, page, parked>>
DiscoverySave(script) == Save(script) /\ UNCHANGED <<gateway, call, ret, log, page, parked>>

VerifyStart == VerifyAllLicenses /\ UNCHANGED <<gateway, call, ret, log, page, parked>>
VerifyNext == NextTradie /\ UNCHANGED <<gateway, call, ret, log, page, parked>>
VerifyAsk == AskRegistry /\ UNCHANGED <<gateway, call, ret, log, page, parked>>
VerifyAnswer ==
    /\ \E answer \in RegistryAnswers : RegistryAnswer(answer)
    /\ UNCHANGED <<gateway, call, ret, log, page, parked>>
\* the registry hands out one license number
VerifyAnswerOne ==
    /\ \E answer \in {"error", "not_found", "EC10001"} : RegistryAnswer(answer)
    /\ UNCHANGED <<gateway, call, ret, log, page, parked>>
VerifyPause == VerifyDelay /\ UNCHANGED <<gateway, call, ret, log, page, parked>>
VerifySave == SaveUpdatedTradies /\ UNCHANGED <<gateway, call, ret, log, page, parked>>

VerifyStep ==
    \/ VerifyStart \/ VerifyNext \/ VerifyAsk \/ VerifyAnswer
    \/ VerifyPause \/ VerifySave

\* Spec: the unified discovery and the license verifier, run one after the
\* other in any order on a store that starts absent. The gateway is reachable:
\* every request resolves (SpecBudget and SpecDiscovery have the rejections).
Next ==
    \/ DiscoveryStart("unified")
    \/ DiscoverySearch("unified")
    \/ DiscoveryResolve("unified", PipelinePool)
    \/ DiscoveryDelay("unified")
    \/ DiscoverySave("unified")
    \/ VerifyStart \/ VerifyNext \/ VerifyAsk \/ VerifyAnswerOne
    \/ VerifyPause \/ VerifySave

Spec == Init /\ [][Next]_vars

\* the two discovery scripts, run one after the other in any order on a store
\* that starts absent, with the gateway answering from pool
BothDiscoveries(pool) ==
    \E script \in {"unified", "limited"} :
        \/ DiscoveryStart(script)
        \/ DiscoverySearch(script)
        \/ DiscoveryResolve(script, pool)
        \/ DiscoveryReject(script)
        \/ DiscoveryDelay(script)
        \/ DiscoverySave(script)

\* SpecBudget: the gateway's places are all filtered out, the runs differ in
\* the calls they make
NextBudget == BothDiscoveries(BudgetPool)
SpecBudget == Init /\ [][NextBudget]_vars

\* SpecDiscovery: the gateway's places are admitted
NextDiscovery == BothDiscoveries(DiscoveryPool)
SpecDiscovery == Init /\ [][NextDiscovery]_vars

\* SpecIdem: runs of the unified discovery against a gateway stub, which
\* answers a query it has answered before as it did then
query == <<suburb, trade>>

StubStart == StartDiscovery("unified", TRUE) /\ UNCHANGED <<gateway, call, ret, log, page, parked>>
StubSearch == SearchInLocation("unified") /\ UNCHANGED <<gateway, call, ret, log, page, parked>>
StubResolveFrom(pool) ==
    \E body \in GatewayData(pool) :
        /\ gateway[query].asked => (~gateway[query].rejected /\ gateway[query].body = body)
        /\ GatewayResolves("unified", body)
        /\ gateway' = [gateway EXCEPT
                          ![query] = [asked |-> TRUE, rejected |-> FALSE, body |-> body]]
        /\ UNCHANGED <<call, ret, log, page, parked>>
StubResolve == StubResolveFrom(IdemPool)
StubReject ==
    /\ gateway[query].asked => gateway[query].rejected
    /\ GatewayRejects("unified")
    /\ gateway' = [gateway EXCEPT
                      ![query] = [Unasked EXCEPT !.asked = TRUE, !.rejected = TRUE]]
    /\ UNCHANGED <<call, ret, log, page, parked>>
StubDelay == Delay("unified") /\ UNCHANGED <<gateway, call, ret, log, page, parked>>
StubSave == Save("unified") /\ UNCHANGED <<gateway, call, ret, log, page, parked>>

NextIdem ==
    \/ StubStart \/ StubSearch \/ StubResolve \/ StubReject \/ StubDelay \/ StubSave

SpecIdem == Init /\ [][NextIdem]_vars

\* SpecVerify: passes of the license verifier over a store that one discovery
\* run has written: the run made its first two queries, which the gateway
\* answered with first and second
storeOfUnified(first, second) ==
    unifiedData(<< >>,
        acceptPlaces(second, TEST_TRADES[2], TEST_SUBURBS[1], << >>,
            acceptPlaces(first, TEST_TRADES[1], TEST_SUBURBS[1], << >>, << >>, 0), 0),
        2, 0)

storeOfLimited(first, second) ==
    tradiesData(
        acceptPlacesLimited(second, TEST_TRADES_LIMITED[2], TEST_SUBURBS[1],
            acceptPlacesLimited(first, TEST_TRADES_LIMITED[1], TEST_SUBURBS[1], << >>, 0), 0),
        2, 0)

\* what the gateway answered the two queries with: no place or one place
StoreAnswers == {<< >>} \cup {<<p>> : p \in VerifyPool}

DiscoveredStores ==
    {storeOfUnified(first, second) : first, second \in StoreAnswers}
        \cup {storeOfLimited(first, second) : first, second \in StoreAnswers}

InitVerify ==
    /\ file \in DiscoveredStores
    /\ clock = 0
    /\ program = "idle"
    /\ pc = "idle"
    /\ NoDiscovery
    /\ NoVerifier
    /\ lastRun = NoRun
    /\ gateway = [q \in Queries |-> Unasked]
    /\ call = NoCall
    /\ ret = NoReturn
    /\ log = << >>
    /\ page = NoPage
    /\ parked = NoProcess

SpecVerify == InitVerify /\ [][VerifyStep]_vars

\* SpecTwice: passes of the license verifier with a registry that answers a
\* query as it answered it in the pass before.  The record shows how: a
\* licensed record carries the number and, in the holder's name, the variant
\* the registry reported it for; for an unlicensed one it reported none
S_PtyLtd == <<" ","P","t","y"," ","L","t","d">>
reportedBefore(tradie, searchTerm) ==
    /\ tradie.licensed = "true"
    /\ tradie.license_holder_name = searchTerm \o S_PtyLtd
TwiceNext ==
    /\ NextTradie
    /\ (i <= Len(tradies) /\ tradies[i].license_verified = "true") =>
          registry' = [k \in 1..Len(searchTerms') |->
                          reportedBefore(tradies[i], searchTerms'[k])]
    /\ UNCHANGED <<gateway, call, ret, log, page, parked>>
TwiceAnswer ==
    /\ \E answer \in RegistryAnswers :
          /\ RegistryAnswer(answer)
          /\ (tradies[i].license_verified = "true" /\ answer \in LicenseNumbers) =>
                answer = tradies[i].license_number
    /\ UNCHANGED <<gateway, call, ret, log, page, parked>>
NextTwice ==
    \/ VerifyStart \/ TwiceNext \/ VerifyAsk \/ TwiceAnswer
    \/ VerifyPause \/ VerifySave
SpecTwice == InitVerify /\ [][NextTwice]_vars

\* SpecInterleave: two processes on the one store file.  The scripts share
\* nothing but data/tradies.json, and between its load and its save a process
\* reads and writes its own fields only: every interleaving of two processes
\* has the effect of one that switches right after a load or right before a
\* save.  The variables hold the process that runs, parked the other one.
hasJustLoaded ==
    \/ program \in {"unified", "limited"} /\ pc = "loop" /\ requests = 0
    \/ program = "verify" /\ pc = "next" /\ i = 1 /\ verifiedCount = 0
Switch ==
    /\ program # "idle" \/ parked.program # "idle"
    /\ program = "idle" \/ pc = "save" \/ hasJustLoaded
    /\ parked' =
          [program |-> program, pc |-> pc, apiKey |-> apiKey,
           existingTradies |-> existingTradies, results |-> results,
           apiCallCount |-> apiCallCount, suburb |-> suburb, trade |-> trade,
           requests |-> requests, data |-> data, tradies |-> tradies, i |-> i,
           searchTerms |-> searchTerms, term |-> term,
           verifiedCount |-> verifiedCount, licensedCount |-> licensedCount,
           registry |-> registry, queried |-> queried]
    /\ program' = parked.program
    /\ pc' = parked.pc
    /\ apiKey' = parked.apiKey
    /\ existingTradies' = parked.existingTradies
    /\ results' = parked.results
    /\ apiCallCount' = parked.apiCallCount
    /\ suburb' = parked.suburb
    /\ trade' = parked.trade
    /\ requests' = parked.requests
    /\ data' = parked.data
    /\ tradies' = parked.tradies
    /\ i' = parked.i
    /\ searchTerms' = parked.searchTerms
    /\ term' = parked.term
    /\ verifiedCount' = parked.verifiedCount
    /\ licensedCount' = parked.licensedCount
    /\ registry' = parked.registry
    /\ queried' = parked.queried
    /\ UNCHANGED <<file, clock, lastRun, gateway, call, ret, log, page>>

InterleavePool == {P_Lee}
\* the store file is absent, or an earlier discovery run has written one record
InitInterleave ==
    /\ file \in {NoFile, storeOfUnified(<<P_Mia>>, << >>)}
    /\ clock = 0
    /\ program = "idle"
    /\ pc = "idle"
    /\ NoDiscovery
    /\ NoVerifier
    /\ lastRun = NoRun
    /\ gateway = [q \in Queries |-> Unasked]
    /\ call = NoCall
    /\ ret = NoReturn
    /\ log = << >>
    /\ page = NoPage
    /\ parked = NoProcess
NextInterleave ==
    \/ DiscoveryStart("unified")
    \/ DiscoverySearch("unified")
    \/ DiscoveryResolve("unified", InterleavePool)
    \/ DiscoveryDelay("unified")
    \/ DiscoverySave("unified")
    \/ VerifyStart \/ VerifyNext \/ VerifyAsk \/ VerifyAnswerOne
    \/ VerifyPause \/ VerifySave
    \/ Switch
SpecInterleave == InitInterleave /\ [][NextInterleave]_vars

\* SpecFailure: runs of the unified discovery against a gateway that may fail
\* any call, also one for a query it answered before; gateway keeps, for the
\* current run, whether the last call for each query failed.  The fetch
\* promise of a call in flight settles and the setTimeout of the delay fires:
\* no run waits forever (FailureReject is enabled exactly while a call is in
\* flight, so its weak fairness says that the call settles, one way or the
\* other)
FailurePool == {P_Lee}
FailureStart ==
    /\ StartDiscovery("unified", TRUE)
    /\ gateway' = [q \in Queries |-> Unasked]
    /\ UNCHANGED <<call, ret, log, page, parked>>
FailureResolve ==
    \E body \in GatewayData(FailurePool) :
        /\ GatewayResolves("unified", body)
        /\ gateway' = [gateway EXCEPT ![query] = [Unasked EXCEPT !.asked = TRUE]]
        /\ UNCHANGED <<call, ret, log, page, parked>>
FailureReject ==
    /\ GatewayRejects("unified")
    /\ gateway' = [gateway EXCEPT
                      ![query] = [Unasked EXCEPT !.asked = TRUE, !.rejected = TRUE]]
    /\ UNCHANGED <<call, ret, log, page, parked>>
NextFailure ==
    \/ FailureStart \/ StubSearch \/ FailureResolve \/ FailureReject \/ StubDelay
    \/ StubSave
SpecFailure ==
    /\ Init /\ [][NextFailure]_vars
    /\ WF_vars(StubSearch) /\ WF_vars(FailureReject) /\ WF_vars(StubDelay)

\* SpecMalformed: the unified discovery and the license verifier, run one
\* after the other in any order on a tradies.json that exists and is not JSON
InitMalformed ==
    /\ file = Unparseable
    /\ clock = 0
    /\ program = "idle"
    /\ pc = "idle"
    /\ NoDiscovery
    /\ NoVerifier
    /\ lastRun = NoRun
    /\ gateway = [q \in Queries |-> Unasked]
    /\ call = NoCall
    /\ ret = NoReturn
    /\ log = << >>
    /\ page = NoPage
    /\ parked = NoProcess
SpecMalformed == InitMalformed /\ [][Next]_vars

\* SpecTrace: the unified discovery, against a gateway that may fail any call,
\* and the license verifier, run one after the other in any order on a store
\* that starts absent.  log lists what the current run started and what it saw
\* end: the load of the store file (loadExistingData resp. the readFileSync
\* of verifyAllLicenses), each fetch and its settling, each
\* searchWALicense call and its return (or the error it caught), each delay
\* and its timer, the write
\* of the store file.  A script stands at one await at a time; the promise it
\* waits for settles and the timer it waits for fires.
NoQuery == <<0, 0>>
Event(op, q) == [op |-> op, q |-> q]

\* a script that does not await what it started: the end goes unseen
endsUnawaited(events, op) == events

\* the await of a call or of a delay returns
ends(events, op) == Append(events, Event(op, NoQuery))

\* a searchInLocation that saves the store when its call has settled
afterCallSaving(events) ==
    Append(Append(ends(events, "settled"), Event("write", NoQuery)),
           Event("delay", NoQuery))

\* searchInLocation returns when its call has settled, and the delay begins
afterCall(events) == Append(ends(events, "settled"), Event("delay", NoQuery))

TracePool == {P_KateLtd}

TraceStart ==
    /\ \E hasKey \in BOOLEAN :
          /\ StartDiscovery("unified", hasKey)
          /\ log' = IF hasKey THEN <<Event("load", NoQuery)>> ELSE << >>
    /\ UNCHANGED <<gateway, call, ret, page, parked>>
TraceSearch ==
    /\ SearchInLocation("unified")
    /\ log' = IF pc' = "gateway" THEN Append(log, Event("fetch", query)) ELSE log
    /\ UNCHANGED <<gateway, call, ret, page, parked>>
TraceResolve ==
    /\ \E body \in GatewayData(TracePool) : GatewayResolves("unified", body)
    /\ log' = afterCall(log)
    /\ UNCHANGED <<gateway, call, ret, page, parked>>
TraceReject ==
    /\ GatewayRejects("unified")
    /\ log' = afterCall(log)
    /\ UNCHANGED <<gateway, call, ret, page, parked>>
TraceDelay ==
    /\ Delay("unified")
    /\ log' = ends(log, "timer")
    /\ UNCHANGED <<gateway, call, ret, page, parked>>
TraceSave ==
    /\ Save("unified")
    /\ log' = Append(log, Event("write", NoQuery))
    /\ UNCHANGED <<gateway, call, ret, page, parked>>
TraceVerifyStart ==
    /\ VerifyAllLicenses
    /\ log' = IF file.exists THEN <<Event("load", NoQuery)>> ELSE << >>
    /\ UNCHANGED <<gateway, call, ret, page, parked>>
TraceVerifyNext == NextTradie /\ UNCHANGED <<gateway, call, ret, log, page, parked>>
TraceVerifyAsk ==
    /\ AskRegistry
    /\ log' = Append(log, Event("search", NoQuery))
    /\ UNCHANGED <<gateway, call, ret, page, parked>>
TraceVerifyAnswer ==
    /\ \E answer \in {"error", "not_found", "EC10001"} :
          /\ RegistryAnswer(answer)
          /\ LET seen == ends(log, IF answer = "error" THEN "caught" ELSE "returned")
             IN log' = IF pc' = "pause" THEN Append(seen, Event("delay", NoQuery))
                       ELSE seen
    /\ UNCHANGED <<gateway, call, ret, page, parked>>
TraceVerifyPause ==
    /\ VerifyDelay
    /\ log' = ends(log, "timer")
    /\ UNCHANGED <<gateway, call, ret, page, parked>>
TraceVerifySave ==
    /\ SaveUpdatedTradies
    /\ log' = Append(log, Event("write", NoQuery))
    /\ UNCHANGED <<gateway, call, ret, page, parked>>

NextTrace ==
    \/ TraceStart \/ TraceSearch \/ TraceResolve \/ TraceReject \/ TraceDelay
    \/ TraceSave
    \/ TraceVerifyStart \/ TraceVerifyNext \/ TraceVerifyAsk \/ TraceVerifyAnswer
    \/ TraceVerifyPause \/ TraceVerifySave
SpecTrace ==
    /\ Init /\ [][NextTrace]_vars
    /\ WF_vars(TraceSearch) /\ WF_vars(TraceReject) /\ WF_vars(TraceDelay)
    /\ WF_vars(TraceSave)

\* SpecPublish: the unified discovery and the two publishers, run one after
\* the other in any order on a store that starts absent
PublishPool == {P_Kate, P_Mia}
NextPublish ==
    \/ DiscoveryStart("unified")
    \/ DiscoverySearch("unified")
    \/ DiscoveryResolve("unified", PublishPool)
    \/ DiscoveryDelay("unified")
    \/ DiscoverySave("unified")
    \/ UpdateWebsiteUnified
    \/ UpdateWebsite
SpecPublish == Init /\ [][NextPublish]_vars

\* SpecSym: runs of the unified discovery in which the gateway returns one
\* business under two spellings of its name; gateway keeps the answers of
\* the current run
P_JohnUpper == Place("g1", N_JOHNSMITHLTD, A_Perth, "08 3", <<>>)
SymPool == {P_John, P_JohnUpper}

SymStart ==
    /\ StartDiscovery("unified", TRUE)
    /\ gateway' = [q \in Queries |-> Unasked]
    /\ UNCHANGED <<call, ret, log, page, parked>>
SymSearch == SearchInLocation("unified") /\ UNCHANGED <<gateway, call, ret, log, page, parked>>
SymResolve ==
    \E body \in GatewayData(SymPool) :
        /\ GatewayResolves("unified", body)
        /\ gateway' = [gateway EXCEPT
                          ![query] = [asked |-> TRUE, rejected |-> FALSE, body |-> body]]
        /\ UNCHANGED <<call, ret, log, page, parked>>
SymDelay == Delay("unified") /\ UNCHANGED <<gateway, call, ret, log, page, parked>>
SymSave == Save("unified") /\ UNCHANGED <<gateway, call, ret, log, page, parked>>

NextSym == SymStart \/ SymSearch \/ SymResolve \/ SymDelay \/ SymSave
SpecSym == Init /\ [][NextSym]_vars

\* SpecFirst: runs of the unified discovery in which the gateway returns up to
\* two places per call, each one of the two spellings of one business;
\* gateway keeps the last answer
FirstBodies ==
    {[hasPlaces |-> TRUE, places |-> l, hasError |-> FALSE] :
        l \in {<< >>} \cup {<<a>> : a \in SymPool}
                      \cup {<<a, b>> : a \in SymPool, b \in SymPool}}
FirstResolve ==
    \E body \in FirstBodies :
        /\ GatewayResolves("unified", body)
        /\ gateway' = [q \in Queries |->
                          IF q = query
                          THEN [asked |-> TRUE, rejected |-> FALSE, body |-> body]
                          ELSE Unasked]
        /\ UNCHANGED <<call, ret, log, page, parked>>
NextFirst == SymStart \/ SymSearch \/ FirstResolve \/ SymDelay \/ SymSave
SpecFirst == Init /\ [][NextFirst]_vars

\* SpecAdmit: runs of the unified discovery in which the gateway returns
\* places the validity filter admits (with and without an address) and
\* places it rejects (by name, by address); gateway keeps the last answer
AdmitPool == {P_John, P_Kate, P_Bunnings, P_Sydney}
AdmitResolve ==
    \E body \in GatewayData(AdmitPool) :
        /\ GatewayResolves("unified", body)
        /\ gateway' = [q \in Queries |->
                          IF q = query
                          THEN [asked |-> TRUE, rejected |-> FALSE, body |-> body]
                          ELSE Unasked]
        /\ UNCHANGED <<call, ret, log, page, parked>>
NextAdmit == SymStart \/ SymSearch \/ AdmitResolve \/ SymDelay \/ SymSave
SpecAdmit == Init /\ [][NextAdmit]_vars

\* SpecPhone: runs of the unified discovery in which the gateway returns up to
\* two places that have no phone number, with different names and ids;
\* gateway keeps the last answer
P_LeeNoPhone == Place("g10", N_Lee, A_Perth, UndefS, <<>>)
P_MiaNoPhone == Place("g11", N_MiaCo, A_Perth, UndefS, <<>>)
PhonePool == {P_LeeNoPhone, P_MiaNoPhone}
PhoneBodies ==
    {[hasPlaces |-> TRUE, places |-> l, hasError |-> FALSE] :
        l \in {<< >>} \cup {<<a>> : a \in PhonePool}
                      \cup {<<a, b>> : a \in PhonePool, b \in PhonePool}}
PhoneResolve ==
    \E body \in PhoneBodies :
        /\ GatewayResolves("unified", body)
        /\ gateway' = [q \in Queries |->
                          IF q = query
                          THEN [asked |-> TRUE, rejected |-> FALSE, body |-> body]
                          ELSE Unasked]
        /\ UNCHANGED <<call, ret, log, page, parked>>
NextPhone == SymStart \/ SymSearch \/ PhoneResolve \/ SymDelay \/ SymSave
SpecPhone == Init /\ [][NextPhone]_vars

\* SpecShapes: runs of the unified discovery on a store that an earlier run of
\* either discovery script has written
SpecShapes == InitVerify /\ [][NextAdmit]_vars

\* SpecFilter: the isValidTradie of the three discovery scripts, each applied
\* to the records processPlace can hand it
N_LeeSupply == <<"L","e","e"," ","S","u","p","p","l","y">>
A_WesternAustralia == <<"9"," ","Z"," ","S","t",","," ","W","e","s","t","e","r","n"," ","A","u","s","t","r","a","l","i","a">>
T_store == <<"s","t","o","r","e">>
T_electrician == <<"e","l","e","c","t","r","i","c","i","a","n">>
T_establishment == <<"e","s","t","a","b","l","i","s","h","m","e","n","t">>
T_general_contractor == <<"g","e","n","e","r","a","l","_","c","o","n","t","r","a","c","t","o","r">>
T_car_service == <<"c","a","r","_","s","e","r","v","i","c","e">>

N_ABCElectrical ==
    <<"A","B","C"," ","E","l","e","c","t","r","i","c","a","l"," ","P","t","y"," ","L","t","d">>
\* the candidate of the scenario: no address
P_ABC == Place("g9", N_ABCElectrical, Undef, "0400000000",
               <<"electrician", "establishment">>)

FilterNames == {N_Lee, N_Bunnings, N_LeeSupply, N_ABCElectrical}
FilterAddresses == {Undef, A_Perth, A_Sydney, A_WesternAustralia}
FilterTypes ==
    {<< >>, <<T_store>>, <<T_electrician, T_establishment>>,
     <<T_store, T_general_contractor>>, <<T_car_service>>}
Filters == {"isValidTradie", "isValidTradieLimited", "isValidTradieNew"}

\* placeData as the processPlace of the script builds it before the filter
FilterRecord(fn, theName, theAddress, types) ==
    IF fn = "isValidTradie"
    THEN [BlankTradie EXCEPT !.name = theName, !.address = theAddress,
                             !.google_types = types]
    ELSE [BlankTradie EXCEPT !.business_name = theName, !.address = theAddress,
                             !.google_types = types]

FilterCalls ==
    {[fn |-> fn, place |-> FilterRecord(fn, n, a, t)] :
        fn \in Filters, n \in FilterNames, a \in FilterAddresses, t \in FilterTypes}

InitFilter ==
    /\ file = NoFile
    /\ clock = 0
    /\ program = "idle"
    /\ pc = "idle"
    /\ NoDiscovery
    /\ NoVerifier
    /\ lastRun = NoRun
    /\ gateway = [q \in Queries |-> Unasked]
    /\ call \in FilterCalls
    /\ ret = NoReturn
    /\ log = << >>
    /\ page = NoPage
    /\ parked = NoProcess

\* the filter of the call returns
ApplyFilter ==
    /\ ~ret.done
    /\ ret' = [done |-> TRUE,
               value |-> IF call.fn = "isValidTradie" THEN isValidTradie(call.place)
                         ELSE IF call.fn = "isValidTradieLimited"
                         THEN isValidTradieLimited(call.place)
                         ELSE isValidTradieNew(call.place)]
    /\ UNCHANGED <<file, clock, program, pc, discoveryVars, verifierVars, lastRun,
                   gateway, call, log, page, parked>>

SpecFilter == InitFilter /\ [][ApplyFilter]_vars

\* SpecTerms: generateSearchTerms applied to the business names made of a
\* first word, a second word or none, legal/trade suffix words or none, and
\* a word after them or none
W_First == {<<"L","i","n","c","o","l","n">>, <<"S","m","i","t","h">>, <<"L","e","e">>, <<"S","c","o","t","t">>, <<"K","a","t","e">>}
W_Second == {<< >>, <<<<"G","a","s">>>>, <<<<"J","o","n","e","s">>>>, <<<<"P","o","w","e","r">>>>}
W_Suffixes == {<< >>, <<<<"L","t","d">>>>, <<<<"P","t","y">>, <<"L","t","d">>>>, <<<<"E","L","E","C","T","R","I","C","A","L">>, <<"P","t","y">>, <<"L","t","d">>>>}
W_After == {<< >>, <<<<"P","e","r","t","h">>>>}

\* Array.prototype.join(' ')
RECURSIVE joinWords(_)
joinWords(words) ==
    IF words = << >> THEN << >>
    ELSE IF Len(words) = 1 THEN words[1]
    ELSE words[1] \o <<" ">> \o joinWords(Tail(words))

TermNames ==
    {joinWords(<<f>> \o m \o x \o a) :
        f \in W_First, m \in W_Second, x \in W_Suffixes, a \in W_After}

TermCalls ==
    {[fn |-> "generateSearchTerms",
      place |-> [BlankTradie EXCEPT !.business_name = n]] : n \in TermNames}

InitTerms ==
    /\ file = NoFile
    /\ clock = 0
    /\ program = "idle"
    /\ pc = "idle"
    /\ NoDiscovery
    /\ NoVerifier
    /\ lastRun = NoRun
    /\ gateway = [q \in Queries |-> Unasked]
    /\ call \in TermCalls
    /\ ret = [done |-> FALSE, value |-> << >>]
    /\ log = << >>
    /\ page = NoPage
    /\ parked = NoProcess

\* verifyLicense: const searchTerms = this.generateSearchTerms(businessName)
ApplyTerms ==
    /\ ~ret.done
    /\ ret' = [done |-> TRUE, value |-> generateSearchTerms(call.place.business_name)]
    /\ UNCHANGED <<file, clock, program, pc, discoveryVars, verifierVars, lastRun,
                   gateway, call, log, page, parked>>

SpecTerms == InitTerms /\ [][ApplyTerms]_vars

----
(***************************************************************************)
(* Properties                                                              *)
(***************************************************************************)
\* the records of the store file
Stored == file.tradies

\* C1: in a discovery run of either script apiCallCount never exceeds
\* MAX_API_CALLS, and from a state in which apiCallCount equals MAX_API_CALLS
\* no step of the run issues another gateway request (requests does not grow),
\* whatever queries are left.
C1_BudgetNeverExceeded ==
    /\ [](apiCallCount <= MAX_API_CALLS)
    /\ [][apiCallCount = MAX_API_CALLS => requests' <= requests]_vars

\* C1 witness: the limited run has left its loop on the budget check in the
\* middle of a location, with categories of it and a whole location left
C1_BudgetReachedMidLocation ==
    /\ program = "limited"
    /\ pc = "save"
    /\ apiCallCount = MAX_API_CALLS
    /\ trade > 1
    /\ suburb < Len(TEST_SUBURBS)

\* C2: against a gateway stub that answers every query as it did before, the
\* records of the store never change once the first run (on the absent store)
\* has saved them: the second run writes the same records, it adds none.
C2_SecondRunAddsNothing ==
    [][file.exists => file'.tradies = file.tradies]_vars

\* C2 witness: the second run has saved, the stub had answered with places and
\* the store holds a record
C2_SecondRunSaved ==
    /\ clock = 2
    /\ program = "idle"
    /\ lastRun.saved
    /\ Len(Stored) >= 1
    /\ \E q \in Queries : gateway[q].asked /\ gateway[q].body.places # << >>

\* the fields verifyLicense may write
LicenseFields ==
    {"licensed", "license_verified", "license_number", "license_type",
     "license_holder_name", "license_status", "license_verified_date"}

\* records a and b differ in license fields only
sameButLicense(a, b) ==
    \A f \in (DOMAIN BlankTradie) \ LicenseFields : a[f] = b[f]

\* C3: whatever the registry answers, a verification pass leaves in the store
\* the same number of records in the same order, and every record equal to
\* what it was in every field that is not a license field.
C3_PassKeepsBusinessData ==
    [][/\ Len(file'.tradies) = Len(file.tradies)
       /\ \A n \in 1..Len(file.tradies) :
             sameButLicense(file.tradies[n], file'.tradies[n])]_vars

\* C3 witness: a pass has saved a store of two records, one found licensed and
\* one found unlicensed
C3_PassSavedBothOutcomes ==
    /\ lastRun.program = "verify"
    /\ lastRun.saved
    /\ Len(Stored) = 2
    /\ \E m, n \in 1..Len(Stored) :
          Stored[m].licensed = "true" /\ Stored[n].licensed = "false"

\* C4: after any sequence of discovery runs, no two records of the store have
\* the same google_place_id, when it is not null.
C4_NoSharedPlaceId ==
    \A m, n \in 1..Len(Stored) :
        (/\ m # n
         /\ Stored[m].google_place_id # UndefS
         /\ Stored[m].google_place_id # NullS)
        => Stored[m].google_place_id # Stored[n].google_place_id

\* C5: after any sequence of discovery runs, no two records of the store have
\* both the same name, compared in lower case, and the same phone.
C5_NoSharedNameAndPhone ==
    \A m, n \in 1..Len(Stored) :
        m # n =>
            ~(/\ toLowerCase(businessNameOf(Stored[m]))
                    = toLowerCase(businessNameOf(Stored[n]))
              /\ Stored[m].phone = Stored[n].phone)

\* C6: across unified discovery runs and verification passes the record at
\* position n of the store has id n, so the ids are unique and are 1..n in
\* store order, and no step changes the id of a record the store holds or
\* puts another record in its place.
C6_IdsArePositionsAndStable ==
    /\ [](\A n \in 1..Len(Stored) : Stored[n].id = n)
    /\ [][\A n \in 1..Len(file.tradies) :
            /\ n <= Len(file'.tradies)
            /\ file'.tradies[n].id = file.tradies[n].id
            /\ file'.tradies[n].google_place_id = file.tradies[n].google_place_id]_vars

\* C6 witness: the store holds records of two discovery runs
C6_RecordsOfTwoRuns ==
    /\ Len(Stored) >= 2
    /\ \E m, n \in 1..Len(Stored) :
          Stored[m].discovered_date # Stored[n].discovered_date

\* the license fields of a record are those of one outcome: never verified,
\* found, or not found with nothing of a license left
oneOutcome(r) ==
    \/ /\ r.license_verified = UndefS
       /\ r.license_number = UndefS
       /\ r.license_type = UndefS
       /\ r.license_holder_name = Undef
       /\ r.license_status = UndefS
    \/ /\ r.license_verified = "true"
       /\ r.licensed = "true"
       /\ r.license_number \in LicenseNumbers
       /\ r.license_type # UndefS
       /\ r.license_holder_name # Undef
       /\ r.license_status = "Current"
    \/ /\ r.license_verified = "true"
       /\ r.licensed = "false"
       /\ r.license_number = NullS
       /\ r.license_type = UndefS
       /\ r.license_holder_name = Undef
       /\ r.license_status = "not_found"

\* C7: the license fields of a stored record are all of one verification
\* outcome: no record has licensed = false together with the license type or
\* holder name of an earlier match.
C7_LicenseFieldsOfOneOutcome ==
    \A n \in 1..Len(Stored) : oneOutcome(Stored[n])

\* the first variant the registry reports a license for, 0 when there is none
firstFound ==
    IF \E k \in 1..Len(registry) : registry[k]
    THEN CHOOSE k \in 1..Len(registry) :
            registry[k] /\ \A j \in 1..(k - 1) : ~registry[j]
    ELSE 0

\* C8: verifyLicense queries the variants in the order of generateSearchTerms
\* and none after the first the registry reports a license for; when it is
\* done with the record, the record has the data returned for that variant.
C8_FirstMatchWins ==
    (program = "verify" /\ pc \in {"ask", "answer", "pause"}) =>
        /\ Len(queried) <= Len(searchTerms)
        /\ queried = SubSeq(searchTerms, 1, Len(queried))
        /\ \A k \in 1..(Len(queried) - 1) : ~registry[k]
        /\ (pc = "pause" /\ firstFound # 0) =>
              /\ Len(queried) = firstFound
              /\ tradies[i].licensed = "true"
              /\ tradies[i].license_holder_name
                    = searchWALicense(searchTerms[firstFound], "plumber",
                                      "EC10001").holder_name

\* C8 witness: the second of three variants matched and the loop ended, the
\* third would have matched as well
C8_LaterVariantNotAsked ==
    /\ program = "verify"
    /\ pc = "pause"
    /\ Len(searchTerms) >= 3
    /\ ~registry[1] /\ registry[2] /\ registry[3]
    /\ Len(queried) = 2

\* C9: a record the unified script made (it has the licenseNumber field) and
\* a pass found licensed has in licenseNumber the number the registry
\* returned, which the pass wrote to license_number.
C9_LicenseNumberFieldSet ==
    \A n \in 1..Len(Stored) :
        (Stored[n].licenseNumber # UndefS /\ Stored[n].licensed = "true")
        => Stored[n].licenseNumber = Stored[n].license_number

\* C10: when the registry reports a license for no variant of a record,
\* verifyLicense asks for every variant and leaves the record with
\* licensed = false, license_number = null, license_status = 'not_found' and
\* license_verified_date the time of this pass, also when the record was
\* licensed before.
C10_NoMatchMarksUnlicensed ==
    (program = "verify" /\ pc = "pause" /\ firstFound = 0) =>
        /\ queried = searchTerms
        /\ tradies[i].licensed = "false"
        /\ tradies[i].license_verified = "true"
        /\ tradies[i].license_number = NullS
        /\ tradies[i].license_status = "not_found"
        /\ tradies[i].license_verified_date = clock
        /\ clock > 0

\* C10 witness: no variant matched for a record the store had as licensed
C10_LicensedBeforeNotNow ==
    /\ program = "verify"
    /\ pc = "pause"
    /\ firstFound = 0
    /\ data.tradies[i].licensed = "true"
    /\ data.tradies[i].license_number \in LicenseNumbers

\* the name of the record a filter is called with, and the keywords it excludes
calledName == IF call.fn = "isValidTradie" THEN call.place.name
              ELSE call.place.business_name
calledKeywords ==
    IF call.fn = "isValidTradie" THEN excludeKeywords
    ELSE IF call.fn = "isValidTradieLimited" THEN excludeKeywordsLimited
    ELSE excludeKeywordsNew

\* the three checks of the validity filter as the specification lists them
keywordCheckFails ==
    \E k \in 1..Len(calledKeywords) :
        includes(toLowerCase(calledName), calledKeywords[k])
addressCheckFails ==
    /\ call.place.address # Undef
    /\ ~includes(call.place.address, S_WA)
    /\ ~includes(call.place.address, S_WesternAustralia)
tagCheckFails ==
    /\ call.place.google_types # << >>
    /\ \A n \in 1..Len(call.place.google_types) :
          /\ call.place.google_types[n] \notin relevantTypes
          /\ ~includes(call.place.google_types[n], S_contractor)
          /\ ~includes(call.place.google_types[n], S_service)

\* C13: the isValidTradie of every discovery script rejects a record whose
\* address is present and has neither 'WA' nor 'Western Australia', and
\* accepts a record without address that its other checks let through.
C13_AddressCheck ==
    ret.done =>
        /\ addressCheckFails => ~ret.value
        /\ (call.place.address = Undef /\ ~keywordCheckFails
                /\ (call.fn = "isValidTradieNew" => ~tagCheckFails))
            => ret.value

\* C14: the isValidTradie of UnifiedTradieDiscovery and of TradieDiscoveryNew
\* rejects a record whose tags are not empty and none of
\* them relevant; it rejects a record that fails the keyword check or the
\* address check alone; it accepts a record without tags that has an address
\* in the region and a name without keyword.
C14_TagCheck ==
    (ret.done /\ call.fn \in {"isValidTradie", "isValidTradieNew"}) =>
        /\ tagCheckFails => ~ret.value
        /\ keywordCheckFails => ~ret.value
        /\ addressCheckFails => ~ret.value
        /\ (call.place.google_types = << >> /\ call.place.address # Undef
                /\ ~keywordCheckFails /\ ~addressCheckFails)
            => ret.value

\* the reference predicate of the dedup rule: some record of the comparison
\* set has the candidate's name ignoring case, or its phone, both non-empty,
\* or its google_place_id, both non-empty
refDuplicate(allTradies, candidate) ==
    \E n \in 1..Len(allTradies) :
        \/ /\ allTradies[n].name # Undef
           /\ toLowerCase(allTradies[n].name) = toLowerCase(candidate.name)
        \/ /\ TruthyS(allTradies[n].phone) /\ TruthyS(candidate.phone)
           /\ allTradies[n].phone = candidate.phone
        \/ /\ TruthyS(allTradies[n].google_place_id)
           /\ TruthyS(candidate.google_place_id)
           /\ allTradies[n].google_place_id = candidate.google_place_id

\* the records processPlace makes of the places the gateway may return now
candidatesNow ==
    {processPlace(place, TEST_TRADES[trade], TEST_SUBURBS[suburb],
                  existingTradies, results, clock) : place \in DiscoveryPool}
        \ {<< >>}

\* C11: whenever the unified script waits for the gateway, isDuplicate of any
\* candidate the gateway may return is true when the reference predicate
\* holds of the loaded store and the records accepted in this run, and false
\* when it does not.
C11_IsDuplicateIsReference ==
    (program = "unified" /\ pc = "gateway") =>
        \A c \in candidatesNow :
            isDuplicate(existingTradies, results, c[1])
                = IF refDuplicate(existingTradies \o results, c[1])
                  THEN "true" ELSE "false"

\* the records admitted so far: the store, and during a run the loaded store
\* with the records of the run
admitted == IF program = "unified" THEN existingTradies \o results ELSE Stored

\* the gateway has returned the business in the current run (either spelling
\* is a valid record)
arrived == \E q \in Queries : gateway[q].asked /\ gateway[q].body.places # << >>

IsPrefix(s, t) == Len(s) <= Len(t) /\ SubSeq(t, 1, Len(s)) = s

\* C15: every write of the store by a discovery run keeps the records the
\* store held before the run, unchanged and in their positions, as a prefix
\* of the saved tradies.
C15_SaveKeepsStoredRecords ==
    [][file' # file => IsPrefix(file.tradies, file'.tradies)]_vars

\* C16: a discovery run has counted in apiCallCount every gateway request
\* that has resolved or been rejected, so the requests it has issued are never
\* more than MAX_API_CALLS.
C16_FailedCallsCounted ==
    /\ (program \in {"unified", "limited"} /\ pc # "gateway")
            => apiCallCount = requests
    /\ requests <= MAX_API_CALLS

\* C17: the step of a unified run in which the gateway stub answers the
\* current query with a parsed body, whatever it holds (places, none, an
\* error payload), adds exactly one to apiCallCount, the processing of the
\* places included; no other step of the run changes apiCallCount.
C17_ResponseCountsOnce ==
    [][/\ (program = "unified" /\ pc = "gateway"
              /\ gateway'[query].asked /\ ~gateway'[query].rejected)
          => apiCallCount' = apiCallCount + 1
       /\ (program = "unified" /\ program' = "unified" /\ pc # "gateway")
          => apiCallCount' = apiCallCount]_vars

\* C17 witness: the stub answered the current query with an error payload
\* and the call was counted
C17_ErrorPayloadCounted ==
    /\ program = "unified"
    /\ pc = "delay"
    /\ gateway[query].asked
    /\ ~gateway[query].rejected
    /\ gateway[query].body.hasError
    /\ apiCallCount >= 1

\* the gateway stub has rejected the current query of the unified run
rejectedNow ==
    /\ program = "unified"
    /\ pc = "delay"
    /\ gateway[query].asked
    /\ gateway[query].rejected

\* C18: the step in which the gateway rejects the current query of a unified
\* run leaves results as they are and the run in its loop; the next step of
\* the run moves on to another (location, category) pair or to the save; and
\* after a rejection the run always comes to its save step.
C18_RejectionIsNotFatal ==
    /\ [][(program = "unified" /\ pc = "gateway" /\ gateway'[query].rejected)
            => (results' = results /\ program' = "unified" /\ pc' = "delay")]_vars
    /\ [][rejectedNow
            => (/\ program' = "unified"
                /\ results' = results
                /\ pc' \in {"loop", "save"}
                /\ pc' = "loop" => <<suburb', trade'>> # <<suburb, trade>>)]_vars
    /\ [](rejectedNow => <>(program = "unified" /\ pc = "save"))

\* C18 witness: the first run stands at its save step with a record, after a
\* query of it was rejected
C18_SaveAfterRejection ==
    /\ program = "unified"
    /\ pc = "save"
    /\ clock = 1
    /\ results # << >>
    /\ \E q \in Queries : gateway[q].rejected

\* a script that ends in the step that starts it: searchTradies found no
\* credential, or verifyAllLicenses found no store file
endsAtStart == program = "idle" /\ program' = "idle" /\ clock' # clock

\* C19: a run that lacks its precondition (a discovery run without
\* GOOGLE_PLACES_API_KEY, a verification pass without tradies.json) ends with
\* a non-zero exit status
C19_MissingPreconditionIsFatal ==
    [][(endsAtStart /\ ~file.malformed) => lastRun'.exit # 0]_vars

\* C20: on a tradies.json that is unparseable, neither a discovery run nor a
\* verification pass issues a call or writes the store: the file stays as it
\* is
C20_MalformedStoreIsFatal ==
    /\ file = Unparseable
    /\ requests = 0
    /\ ~lastRun.saved

\* the outbound calls and delays of events that have begun and not ended
Begins == {"fetch", "search", "delay"}
Finishes == {"settled", "returned", "caught", "timer"}
inFlight(events) ==
    Cardinality({k \in 1..Len(events) : events[k].op \in Begins})
        - Cardinality({k \in 1..Len(events) : events[k].op \in Finishes})

\* C21: within a run, a gateway call, a license search or a delay begins only
\* when every call and delay begun before it has ended: at most one is in
\* flight
C21_OneCallInFlight ==
    /\ inFlight(log) \in {0, 1}
    /\ \A k \in 1..Len(log) :
          log[k].op \in Begins => inFlight(SubSeq(log, 1, k - 1)) = 0

\* a verification pass waits for the answer to the second variant of a record
\* of a store that a discovery run has written
C21_SecondVariantInFlight ==
    /\ program = "verify" /\ pc = "answer" /\ term = 2
    /\ inFlight(log) = 1
    /\ file.apiCallsUsed > 0

\* a step that is a run of one of the publishers
publishes ==
    /\ program = "idle" /\ program' = "idle" /\ clock' # clock
    /\ lastRun'.program \in {"publish", "publish-unified"}

\* C22: a run of a publisher writes the store's tradies sequence into the
\* page as it is (same records, same order, same field values) and leaves
\* tradies.json as it was
C22_PublisherEmbedsVerbatim ==
    [][publishes => (page'.tradiesData = file.tradies /\ file' = file)]_vars

\* the filter is called with the record of the scenario's candidate
scenarioCall ==
    /\ calledName = N_ABCElectrical
    /\ call.place.address = Undef
    /\ call.place.google_types = <<T_electrician, T_establishment>>

\* C23: the candidate 'ABC Electrical Pty Ltd' with types electrician and
\* establishment and no address, returned for 'electrician in Perth WA' on
\* an empty store, passes the validity filter and is admitted with areas
\* <<'Perth Metro'>> and category 'electrician'
C23_ScenarioAdmitted ==
    (ret.done /\ scenarioCall /\ call.fn \in {"isValidTradie", "isValidTradieNew"}) =>
        /\ ret.value
        /\ LET admittedNow == acceptPlaces(<<P_ABC>>, TEST_TRADES[1], TEST_SUBURBS[1],
                                           << >>, << >>, 0)
           IN /\ Len(admittedNow) = 1
              /\ admittedNow[1].name = N_ABCElectrical
              /\ admittedNow[1].areas = <<S_PerthMetro>>
              /\ admittedNow[1].category = "electrician"

\* the number of stored records of category c
storedOf(c) == Cardinality({n \in 1..Len(Stored) : Stored[n].category = c})

catches ==
    /\ program = "verify" /\ pc = "answer"
    /\ \E k \in (Len(log) + 1)..Len(log') : log'[k].op = "caught"

\* the pass has caught an error of the registry
caught == program = "verify" /\ \E k \in 1..Len(log) : log[k].op = "caught"

\* C25: an error of the registry for one variant counts as no match for that
\* variant and does not end the pass: verifyLicense goes on with the next
\* variant, or marks the record not found after the last one; the pass ends
\* in no other way than by saving the store, and every record of the store
\* is verified when it does
C25_RegistryErrorIsNoMatch ==
    /\ [][catches =>
            /\ program' = "verify"
            /\ IF term < Len(searchTerms)
               THEN pc' = "ask" /\ term' = term + 1 /\ tradies' = tradies
               ELSE /\ pc' = "pause"
                    /\ tradies' = [tradies EXCEPT
                                      ![i] = licenseNotFound(tradies[i], clock)]]_vars
    /\ [][(caught /\ program' # "verify") =>
            /\ pc = "save"
            /\ \A n \in 1..Len(tradies) : tradies[n].license_verified = "true"
            /\ file'.tradies = tradies
            /\ lastRun' = [program |-> "verify", saved |-> TRUE, exit |-> 0]]_vars

\* a pass saves after an error of the registry for a variant of a record
\* that was not the last variant
C25_SaveAfterRegistryError ==
    /\ program = "verify" /\ pc = "save"
    /\ tradies # << >>
    /\ \E k \in 1..(Len(log) - 1) : log[k].op = "caught" /\ log[k + 1].op = "search"

\* the positions of log that hold an event op
at(op) == {k \in 1..Len(log) : log[k].op = op}

\* log is that of a unified discovery run that had a credential: the run is
\* under way, or it was the last run and has saved
unifiedLog ==
    \/ program = "unified"
    \/ program = "idle" /\ lastRun.program = "unified" /\ lastRun.saved

\* C26: a unified discovery run with a credential loads the store file once,
\* before its first gateway call, and writes it once, after its last call and
\* delay: while the run is under way nothing is written, the write is the
\* last thing the run does, and the store file changes in that step only
C26_LoadOnceWriteOnce ==
    /\ [](unifiedLog =>
            /\ at("load") = {1}
            /\ IF program = "unified"
               THEN at("write") = {}
               ELSE at("write") = {Len(log)}
            /\ \A w \in at("write") : inFlight(SubSeq(log, 1, w - 1)) = 0)
    /\ [][program = "unified" =>
            (file' # file <=> (log' = Append(log, Event("write", NoQuery))))]_vars

\* a run has saved after two gateway calls
C26_SavedAfterTwoCalls ==
    /\ program = "idle" /\ lastRun.program = "unified" /\ lastRun.saved
    /\ Cardinality(at("fetch")) = 2
    /\ file.exists

\* the record processPlace makes of place when the run holds the records
\* before position m of soFar
recordAt(place, soFar, m) ==
    processPlace(place, TEST_TRADES[trade], TEST_SUBURBS[suburb], existingTradies,
                 SubSeq(soFar, 1, m - 1), clock)

\* C27: in the step in which a call of a unified run resolves, the records
\* admitted before stay as they are, the records added are those of places
\* of the response, in the order of the response and as processPlace made
\* them, none of them a duplicate of a record admitted before it, and every
\* place that is left out is invalid or a duplicate of a record admitted
\* before its turn; no other step of a run changes the results
C27_FirstSeenWins ==
    /\ [][(program = "unified" /\ program' = "unified") =>
            /\ IsPrefix(results, results')
            /\ pc # "gateway" => results' = results]_vars
    /\ [][(program = "unified" /\ pc = "gateway") =>
            LET places == gateway'[query].body.places
                added == (Len(results) + 1)..Len(results')
            IN \E from \in [added -> 1..Len(places)] :
                  /\ \A m, n \in added : m < n => from[m] < from[n]
                  /\ \A m \in added :
                        /\ <<results'[m]>> = recordAt(places[from[m]], results', m)
                        /\ ~refDuplicate(existingTradies \o SubSeq(results', 1, m - 1),
                                         results'[m])
                  /\ \A k \in 1..Len(places) :
                        (\A m \in added : from[m] # k) =>
                            LET turn == Len(results)
                                          + Cardinality({m \in added : from[m] < k})
                                rec == recordAt(places[k], results', turn + 1)
                            IN \/ rec = << >>
                               \/ refDuplicate(existingTradies \o SubSeq(results', 1, turn),
                                               rec[1])]_vars

\* one response held both spellings: the first was admitted, the second
\* dropped
C27_SecondSpellingDropped ==
    /\ program = "unified" /\ pc = "delay"
    /\ gateway[query].body.places = <<P_JohnUpper, P_John>>
    /\ existingTradies = << >>
    /\ Len(results) = 1
    /\ results[1].name = N_JOHNSMITHLTD

\* a record passed the validity filter as the specification states it: no
\* exclusion keyword in its name, and an address that is absent or holds the
\* region marker
passedFilter(tradie) ==
    /\ \A k \in 1..Len(excludeKeywords) :
          \A pos \in 1..(Len(tradie.name) - Len(excludeKeywords[k]) + 1) :
              SubSeq(toLowerCase(tradie.name), pos, pos + Len(excludeKeywords[k]) - 1)
                  # excludeKeywords[k]
    /\ \/ tradie.address \in {Undef, Null, << >>}
       \/ \E pos \in 1..(Len(tradie.address) - 1) :
             SubSeq(tradie.address, pos, pos + 1) = S_WA
       \/ \E pos \in 1..(Len(tradie.address) - Len(S_WesternAustralia) + 1) :
             SubSeq(tradie.address, pos, pos + Len(S_WesternAustralia) - 1)
                 = S_WesternAustralia

\* C28: in every state of a unified discovery run, each record of results
\* has a name without exclusion keyword and an address that is absent or
\* contains the region marker
C28_ResultsPassedFilter ==
    program = "unified" => \A pos \in 1..Len(results) : passedFilter(results[pos])

\* the gateway returned a place the filter rejects after the run had admitted
\* a record: the run holds the one record
C28_RejectedPlaceLeftOut ==
    /\ program = "unified" /\ pc = "delay"
    /\ gateway[query].body.places \in {<<P_Bunnings>>, <<P_Sydney>>}
    /\ Len(results) = 1

\* the lower-cased word is one of the legal/trade suffixes
isSuffixWord(word) ==
    \E k \in 1..Len(businessSuffixes) : toLowerCase(word) = businessSuffixes[k]

\* the words without the suffix words they end with
RECURSIVE withoutTrailingSuffixes(_)
withoutTrailingSuffixes(words) ==
    IF words # << >> /\ isSuffixWord(words[Len(words)])
    THEN withoutTrailingSuffixes(SubSeq(words, 1, Len(words) - 1))
    ELSE words

\* the search terms as the specification lists them
termsAsSpecified(businessName) ==
    LET words == split(businessName, " ")
        kept == withoutTrailingSuffixes(words)
        stripped == joinWords(kept)
        full == <<businessName>>
        second == IF stripped # businessName /\ Len(stripped) > 2
                  THEN <<stripped>> ELSE << >>
        third == IF Len(words[1]) > 3 THEN <<words[1]>> ELSE << >>
        fourth == IF kept # << >> /\ Len(kept[Len(kept)]) > 3
                  THEN <<kept[Len(kept)]>> ELSE << >>
    IN uniq(full \o second \o third \o fourth)

\* C29: generateSearchTerms returns, without duplicates and in this order,
\* the full name, the name without its trailing suffix words, the first word
\* if longer than 3 characters and the last word of the stripped name if
\* longer than 3 characters; a suffix inside a word truncates nothing
C29_TermsAsSpecified ==
    (call.fn = "generateSearchTerms" /\ ret.done) =>
        ret.value = termsAsSpecified(call.place.business_name)

\* the same for the names in which a suffix string occurs only as a whole
\* word at the end of the name
C29_TermsOfTrailingSuffixes ==
    (call.fn = "generateSearchTerms" /\ ret.done) =>
        LET theName == call.place.business_name
            kept == joinWords(withoutTrailingSuffixes(split(theName, " ")))
        IN (\A k \in 1..Len(businessSuffixes) :
                ~includes(toLowerCase(kept), businessSuffixes[k]))
           => ret.value = termsAsSpecified(theName)

\* the (location, category) pairs the run has queried
fetched == {log[k].q : k \in at("fetch")}

\* the run has ended with the save
savedRun ==
    /\ program = "idle" /\ lastRun.program = "unified" /\ lastRun.saved
    /\ at("write") = {Len(log)}

\* C30: with every gateway call resolving or failing in the end, a unified
\* discovery run that has passed the credential check ends with the save;
\* it queries no (location, category) pair twice, and it goes to the save
\* only when the budget check stops it or when every pair has been queried
C30_RunTerminates ==
    /\ (program = "unified") ~> savedRun
    /\ [](unifiedLog =>
            \A m, n \in at("fetch") : log[m].q = log[n].q => m = n)
    /\ [][(program = "unified" /\ pc # "save" /\ pc' = "save") =>
            \/ apiCallCount >= MAX_API_CALLS /\ pc = "loop" /\ log' = log
            \/ fetched = (1..NumSuburbs) \X (1..Len(TEST_TRADES))]_vars

\* a run has saved after querying every pair, below its budget
C30_EveryPairQueried ==
    /\ savedRun
    /\ fetched = (1..NumSuburbs) \X (1..Len(TEST_TRADES))
    /\ file.apiCallsUsed < MAX_API_CALLS

\* C37: a discovery run of either script that finds no credential ends where
\* it started: it has made no gateway call, has loaded nothing from the
\* store and leaves the store file as it was, with apiCallCount 0; gateway
\* calls, loads and writes are steps of runs that hold the credential
C37_NoCredentialNoEffect ==
    /\ [][(clock' # clock /\ ~apiKey') =>
            /\ program' = "idle"
            /\ file' = file
            /\ requests' = 0 /\ apiCallCount' = 0
            /\ existingTradies' = << >> /\ results' = << >>]_vars
    /\ [][~apiKey =>
            /\ file' = file
            /\ requests' = 0 /\ apiCallCount' = 0]_vars

\* a run without credential has ended on a store an earlier run had written
C37_RunWithoutCredentialOnStore ==
    /\ program = "idle" /\ ~lastRun.saved /\ lastRun.program \in {"unified", "limited"}
    /\ file.exists
    /\ requests = 0 /\ apiCallCount = 0

\* C31: a save writes the view of the process that saves and nothing of the
\* store file as it is then: the unified discovery writes the records it
\* loaded followed by its results, the verifier the records it loaded with
\* its license fields, and neither view takes anything from the file between
\* the load and the save.  What another process wrote in between is gone.
C31_LastWriterWins ==
    /\ [][(file' # file /\ program = "unified") =>
            file'.tradies = existingTradies \o results]_vars
    /\ [][(file' # file /\ program = "verify") =>
            /\ file'.tradies = tradies
            /\ Len(tradies) = Len(data.tradies)
            /\ \A k \in 1..Len(tradies) :
                  tradies[k].google_place_id = data.tradies[k].google_place_id]_vars
    /\ [][(parked' = parked /\ program' = program /\ program # "idle") =>
            (existingTradies' = existingTradies /\ data' = data)]_vars

\* the discovery and the verifier had both loaded the store; the verifier
\* has saved its license fields, and the discovery is about to save the
\* record as it had loaded it
C31_StaleViewAtSave ==
    /\ program = "unified" /\ pc = "save" /\ parked.program = "idle"
    /\ lastRun.program = "verify" /\ lastRun.saved
    /\ Len(existingTradies) = 1 /\ Len(file.tradies) = 1
    /\ file.tradies[1].licensed # existingTradies[1].licensed

\* the name a store record goes by, whichever script wrote it
nameOfRecord(tradie) ==
    IF tradie.name # Undef THEN tradie.name ELSE tradie.business_name

\* the dedup rule over records of either shape
duplicatesAcrossShapes(allTradies, candidate) ==
    \E n \in 1..Len(allTradies) :
        \/ toLowerCase(nameOfRecord(allTradies[n])) = toLowerCase(candidate.name)
        \/ /\ TruthyS(allTradies[n].phone) /\ TruthyS(candidate.phone)
           /\ allTradies[n].phone = candidate.phone
        \/ /\ TruthyS(allTradies[n].google_place_id)
           /\ allTradies[n].google_place_id = candidate.google_place_id

\* the loaded store is one discover-tradies.js wrote
loadedLimitedStore ==
    /\ existingTradies # << >>
    /\ \A n \in 1..Len(existingTradies) :
          existingTradies[n].name = Undef /\ existingTradies[n].business_name # Undef

\* C32: when a unified run has loaded records that discover-tradies.js wrote
\* and the gateway returns one place that passes the validity filter, the
\* run admits the candidate if it duplicates no record of the store and of
\* the run, and drops it if it does
C32_DedupAcrossShapes ==
    [][(program = "unified" /\ pc = "gateway" /\ loadedLimitedStore
            /\ Len(gateway'[query].body.places) = 1) =>
          LET candidate == recordAt(gateway'[query].body.places[1], results,
                                    Len(results) + 1)
          IN candidate # << >> =>
                results' = IF duplicatesAcrossShapes(existingTradies \o results,
                                                     candidate[1])
                           THEN results
                           ELSE Append(results, candidate[1])]_vars

\* the same on every store whose records have a name
C32_DedupOnNamedRecords ==
    [][(program = "unified" /\ pc = "gateway" /\ ~loadedLimitedStore
            /\ Len(gateway'[query].body.places) = 1) =>
          LET candidate == recordAt(gateway'[query].body.places[1], results,
                                    Len(results) + 1)
          IN candidate # << >> =>
                results' = IF duplicatesAcrossShapes(existingTradies \o results,
                                                     candidate[1])
                           THEN results
                           ELSE Append(results, candidate[1])]_vars

\* some record has the place's name, ignoring case, or its id
knownByNameOrId(allTradies, place) ==
    \E n \in 1..Len(allTradies) :
        \/ toLowerCase(allTradies[n].name) = toLowerCase(place.displayName)
        \/ allTradies[n].google_place_id = place.id

\* C33: a valid place without phone number that the gateway returns to a
\* unified run is admitted unless a record of the store or of the run, or a
\* place before it in the response, has its name (ignoring case) or its id:
\* that another record has no phone number either drops nothing
C33_NoPhoneIsNoMatch ==
    [][(program = "unified" /\ pc = "gateway") =>
          LET places == gateway'[query].body.places
          IN \A k \in 1..Len(places) :
                (/\ places[k].nationalPhoneNumber = UndefS
                 /\ ~knownByNameOrId(existingTradies \o results, places[k])
                 /\ \A m \in 1..(k - 1) :
                       /\ places[m].displayName # places[k].displayName
                       /\ places[m].id # places[k].id)
                => \E n \in 1..Len(results') :
                      results'[n].google_place_id = places[k].id]_vars

\* the same for places that have a phone number no other record has
C33_OwnPhoneIsNoMatch ==
    [][(program = "unified" /\ pc = "gateway") =>
          LET places == gateway'[query].body.places
          IN \A k \in 1..Len(places) :
                (/\ places[k].nationalPhoneNumber # UndefS
                 /\ ~knownByNameOrId(existingTradies \o results, places[k])
                 /\ \A n \in 1..Len(existingTradies \o results) :
                       (existingTradies \o results)[n].phone # places[k].nationalPhoneNumber
                 /\ Len(places) = 1
                 /\ recordAt(places[k], results, Len(results) + 1) # << >>)
                => \E n \in 1..Len(results') :
                      results'[n].google_place_id = places[k].id]_vars

\* the record carries the outcome of the pass that runs: licensed is true or
\* false, and the verification timestamp is that of the pass
verifiedNow(tradie) ==
    /\ tradie.licensed \in {"true", "false"}
    /\ tradie.license_verified = "true"
    /\ tradie.license_verified_date = clock

\* the number of records verifyLicense has returned for
done == IF pc = "pause" THEN i ELSE i - 1

\* C34: a license verification pass takes the records in store order, one
\* call of verifyLicense each: the records before the loop index carry the
\* outcome of this pass, the others are as loaded; the index steps by one
\* and a record is written in the one step that ends its verifyLicense; the
\* pass saves when the index has passed the last record, so that every
\* saved record has licensed true or false and a verification timestamp
C34_EveryRecordVerifiedOnce ==
    /\ [](program = "verify" =>
            /\ Len(tradies) = Len(data.tradies)
            /\ i \in 1..(Len(tradies) + 1)
            /\ verifiedCount = IF pc \in {"next", "save"} THEN i - 1 ELSE i
            /\ pc = "save" => i = Len(tradies) + 1
            /\ \A k \in 1..Len(tradies) :
                  IF k <= done THEN verifiedNow(tradies[k])
                  ELSE tradies[k] = data.tradies[k])
    /\ [][(program = "verify" /\ program' = "verify") =>
            /\ i' \in {i, i + 1}
            /\ tradies' # tradies =>
                  /\ pc = "answer" /\ pc' = "pause" /\ i' = i
                  /\ \A k \in 1..Len(tradies) : k # i => tradies'[k] = tradies[k]]_vars
    /\ [][(program = "verify" /\ file' # file) =>
            /\ file'.tradies = tradies
            /\ \A k \in 1..Len(tradies) : verifiedNow(file'.tradies[k])]_vars

\* a pass has saved a store of two records, one licensed and one not
C34_TwoRecordsVerified ==
    /\ program = "idle" /\ lastRun.program = "verify" /\ lastRun.saved
    /\ Len(file.tradies) = 2
    /\ file.tradies[1].licensed = "true" /\ file.tradies[2].licensed = "false"
    /\ file.tradies[1].license_verified_date = clock
    /\ file.tradies[2].license_verified_date = clock

\* the number of records of list whose licensed field is value
licensedAs(list, value) ==
    Cardinality({k \in 1..Len(list) : list[k].licensed = value})

\* C35: when a license verification pass has saved, the statistics of the
\* store file agree with its records: totalChecked is the number of records,
\* licensed the number of records with licensed true, unlicensed the number
\* with licensed false, and the two add up to totalChecked
C35_StatsAgreeWithRecords ==
    (program = "idle" /\ lastRun.program = "verify" /\ lastRun.saved) =>
        LET stats == file.licenseVerificationStats
        IN /\ "licenseVerificationStats" \in file.keys
           /\ stats.totalChecked = Len(file.tradies)
           /\ stats.licensed = licensedAs(file.tradies, "true")
           /\ stats.unlicensed = licensedAs(file.tradies, "false")
           /\ stats.licensed + stats.unlicensed = stats.totalChecked

\* a second pass has saved, with one record of two licensed
C35_StatsOfSecondPass ==
    /\ program = "idle" /\ lastRun.program = "verify" /\ lastRun.saved
    /\ clock = 2
    /\ file.licenseVerificationStats =
          [totalChecked |-> 2, licensed |-> 1, unlicensed |-> 1]

\* the license data of a record
licenseData(tradie) ==
    <<tradie.licensed, tradie.license_number, tradie.license_type,
      tradie.license_holder_name, tradie.license_status>>

\* C36: with a registry that answers as in the pass before, a pass over a
\* store that a pass has verified saves every record with the licensed,
\* license number, type, holder and status it had loaded
C36_SecondPassKeepsLicenseData ==
    [][(program = "verify" /\ file' # file /\ "lastLicenseCheck" \in data.keys) =>
          /\ Len(file'.tradies) = Len(data.tradies)
          /\ \A k \in 1..Len(data.tradies) :
                licenseData(file'.tradies[k]) = licenseData(data.tradies[k])]_vars

\* a second pass has saved a store of two records, one licensed and one not
C36_SecondPassSaved ==
    /\ program = "idle" /\ lastRun.program = "verify" /\ lastRun.saved
    /\ clock = 2
    /\ Len(file.tradies) = 2
    /\ file.tradies[1].licensed = "false" /\ file.tradies[2].licensed = "true"
    /\ file.tradies[1].license_verified_date = 2
    /\ file.tradies[2].license_verified_date = 2


=============================================================================
